---- MODULE Spec2Model ----
(***************************************************************************)
(* use-mutable-source: the four client hooks                               *)
(*   withSubscription/useSource        ("subGeneral")                      *)
(*   withSubscription/useAtomicSource  ("subAtomic")                       *)
(*   withContract/useSource            ("conGeneral")                      *)
(*   withContract/useAtomicSource      ("conAtomic")                       *)
(* built on useFactory and Slice, driven by one component of the host      *)
(* rendering runtime: render, layout effects, passive effects, effect      *)
(* re-mount (strict mode / hidden subtree) and unmount.  The component is  *)
(* the App of the test suites: a Source holding a number, getSnapshot that *)
(* reads it (or a fallback while the source is null) plus an offset.       *)
(***************************************************************************)
EXTENDS Integers, Sequences, FiniteSets, TLC

\* ------------------------------------------------------------------ bounds
\* Largest value a test Source may hold.
MaxVal == 1
\* Number of steps the environment may take (source changes, calls of
\* getSource, parent re-renders, effect re-mounts).
MaxEnv == 3
\* Number of Slice.update() calls made on the Slice used on its own.
MaxUpd == 3
\* Number of listener invocations followed within one outermost update().
MaxInvoke == 6
\* warning() calls and warnings.clear() calls a test makes
MaxCalls == 4
MaxClears == 2
\* Hook calls of static renders
MaxServerCalls == 3
\* Own properties of an object given to shallowEqual
MaxKeys == 2
\* Length of a dependency list, and renders of useSource on its own
MaxDeps == 2
MaxRenders == 3

\* ------------------------------------------------------- program constants
\* `null`: the empty marker of ref.current.
NoSrc == 0
\* `null` as a snapshot (currentSnapshot before the first derivation).
Null == -1

Values == 0..MaxVal
\* The test App's effect answers the snapshot 2 with source.setValue(3).
TriggerValue == 2
ChainValue == 3
\* One dependency change per parent re-render at most.
MaxEpoch == MaxEnv + 1
Epochs == 1..MaxEpoch
\* Every epoch realizes at most one source per (re-)mount.
MaxSrc == MaxEnv + 2
Srcs == 1..MaxSrc
\* The component calls useSnapshot twice in the general families.
Slots == {1, 2}

Families == {"subGeneral", "subAtomic", "conGeneral", "conAtomic"}

VARIABLES
    cfg,        \* the component's fixed inputs (which hook, init/contract shape)
    pc,         \* phase of the host runtime for this component
    props,      \* props of the latest render: [gs: slot -> offset, sk: key]
    epoch,      \* dependency epoch of the latest render (0 before mount)
    cepoch,     \* dependency epoch whose effects are mounted
    refs,       \* useFactory: ref of every epoch
    slices,     \* withContract: Slice of every epoch
    src,        \* the Source objects created by init
    slot,       \* per useSnapshot call: memo, store instance, subscription
    atom,       \* atomic families: hook state, effect closure
    needs,      \* a re-render is scheduled
    warned,     \* warnings registry (set of message tags)
    env,        \* environment steps taken so far
    obs,        \* what the App yielded since the latest dispatch (test's getValues())
    out,        \* console.error: messages written, and the calls made by a test
    slc,        \* a Slice used on its own, with the listeners given to it
    host,       \* the environment the module was loaded in, and the hook calls of a static render
    cmp,        \* shallowEqual called on its own: the arguments, the objects, the result
    fac         \* useSource rendered with dependency lists: the identities it returns

vars == <<cfg, pc, props, epoch, cepoch, refs, slices, src, slot, atom, needs, warned, env,
          obs, out, slc, host, cmp, fac>>

\* ----------------------------------------------------------------- inputs
General == cfg.family \in {"subGeneral", "conGeneral"}
Atomic == cfg.family \in {"subAtomic", "conAtomic"}
Contract == cfg.family \in {"conGeneral", "conAtomic"}
Adhoc == cfg.family \in {"subGeneral", "subAtomic"}
ActiveSlots == IF General THEN Slots ELSE {1}

\* The dependency list of an epoch is ["A"], ["B"], ...; the test App creates
\* `new Source(initialValue)`, and its initialValue follows the dependency.
InitialValue(e) == (e - 1) % (MaxVal + 1)

\* What the App's getSnapshot returns while the source is null: the value the
\* source of that dependency list will start from, or (mismatch) another one.
Fallback(e) ==
    IF cfg.fallback = "match" THEN InitialValue(e)
    ELSE (InitialValue(e) + 1) % (MaxVal + 1)

\* ------------------------------------------------------------- the state
\* The mutable program state the hooks' closures act on, and the build's
\* __DEV__ constant.
St == [refs |-> refs, slices |-> slices, src |-> src, slot |-> slot,
       atom |-> atom, needs |-> needs, warned |-> warned, obs |-> obs, out |-> out,
       dev |-> cfg.dev]

Put(t) ==
    /\ refs' = t.refs
    /\ slices' = t.slices
    /\ src' = t.src
    /\ slot' = t.slot
    /\ atom' = t.atom
    /\ needs' = t.needs
    /\ warned' = t.warned
    /\ obs' = t.obs
    /\ out' = t.out

\* The test's record of what the App yields.  It is kept from a dispatch
\* made while the component is at rest on the source of the committed render
\* (from: the snapshot committed then, to: the snapshot of the dispatched
\* value) until the next thing the test does; getValues() empties it.
NoObs == [on |-> FALSE, from |-> Null, to |-> Null, log |-> <<>>]

yieldValue(s, tag, v) ==
    IF s.obs.on THEN [s EXCEPT !.obs.log = Append(@, <<tag, v>>)] ELSE s

getValues(s) == [s EXCEPT !.obs = NoObs]

\* objectIs.ts: Object.is on the numbers and null the snapshots range over.
is(x, y) == x = y

\* warning.ts.  `warnings` is the registry (warned); count: how often each
\* message was written with console.error; calls, clears: the warning()
\* calls and the warnings.clear() calls a test made.
Messages == {"mismatch", "unstable", "render"}

NoOut == [count |-> [m \in Messages |-> 0], calls |-> 0, clears |-> 0]

\* Variant: the message is written at every call.
warningAlways(s, msg) ==
    [s EXCEPT !.warned = @ \cup {msg},
              !.out.count[msg] = IF @ < MaxCalls THEN @ + 1 ELSE @]

\* if (!warnings.has(message)) { warnings.add(message); console.error(...) }
warning(s, msg) ==
    IF msg \in s.warned THEN s
    ELSE [s EXCEPT !.warned = @ \cup {msg},
                   !.out.count[msg] = IF @ < MaxCalls THEN @ + 1 ELSE @]

\* ------------------------------------------------------ test Source object
\* test/utils/source.ts: a value and a set of change listeners.  The other
\* fields are history: the epoch that created it, how often destroy and the
\* contract's unsubscribe were called on it (nd, nu), whether it was
\* destroyed while a listener was attached (dws) or unsubscribed after its
\* destroy (uad), how often the contract was called with it (nc), which
\* useSnapshot calls were subscribed when it changed (chgSub) and which had no
\* subscription mounted (chgPre), and whether a source of an older epoch was
\* still alive when it was created.
EmptySrc ==
    [val |-> 0, ls |-> {}, status |-> "none", e |-> 0, nd |-> 0, nu |-> 0,
     nc |-> 0, dws |-> FALSE, uad |-> FALSE, chgSub |-> {}, chgPre |-> {},
     liveAtInit |-> FALSE]

NewId(s) == 1 + Cardinality({j \in Srcs : s.src[j].status # "none"})

Sat(n) == IF n < 2 THEN n + 1 ELSE 2

\* The source the getSnapshot / subscribe closures of epoch e see.
Current(s, e) == s.refs[e].current

\* The App's getSnapshot:
\*   (source) => (source ? source.getValue() : initialSnapshot) + offset
getSnapshot(s, id, gs, e) ==
    (IF id = NoSrc THEN Fallback(e) ELSE s.src[id].val) + gs

\* getSourceSnapshot: (currentSnapshot) => getSnapshot(ref.current, currentSnapshot)
\* (usePureSource: getSnapshot(source, currentSnapshot), source being the
\* value the epoch's render holds).
getSourceSnapshot(s, e, gs, cur) == getSnapshot(s, Current(s, e), gs, e)

\* ------------------------------------------------------------- useFactory
\* The App's init: `new Source(initialValue)`, or the source value null.
init(s, e) ==
    IF cfg.nullSrc THEN s
    ELSE [s EXCEPT !.src[NewId(s)] =
            [EmptySrc EXCEPT !.val = InitialValue(e), !.status = "live", !.e = e,
                !.liveAtInit = \E j \in Srcs :
                    s.src[j].status = "live" /\ s.src[j].e < e]]

\* The value init(s, e) returns as the source.
InitResult(s) == IF cfg.nullSrc THEN NoSrc ELSE NewId(s)

\* The App's contract: source.addChangeListener(onChange), onChange being
\* slice.update of the epoch's Slice.
contract(s, id, e) ==
    IF id = NoSrc THEN s
    ELSE [s EXCEPT !.src[id].ls = @ \cup {<<"slice", e>>}, !.src[id].nc = Sat(@)]

\* Variant: the factory realizes the source without signing the contract.
factoryInitNoContract(s, e) ==
    [init(s, e) EXCEPT !.refs[e] =
        [current |-> InitResult(s),
         dset |-> (cfg.family \in {"conGeneral", "conAtomic"}) \/ cfg.hasDestroy,
         dsrc |-> InitResult(s),
         inits |-> IF @.inits < 3 THEN @.inits + 1 ELSE 3]]

\* The init function useFactory is given: the caller's init (ad-hoc families)
\* or init followed by contract(source, slice.update) (contract families).
\* It leaves [ref.current, ref.destroy] assigned.
factoryInit(s, e) ==
    LET id == InitResult(s)
        s1 == init(s, e)
        s2 == IF cfg.family \in {"conGeneral", "conAtomic"}
              THEN contract(s1, id, e) ELSE s1
    IN  [s2 EXCEPT !.refs[e] =
            [current |-> id,
             dset |-> (cfg.family \in {"conGeneral", "conAtomic"}) \/ cfg.hasDestroy,
             dsrc |-> id,
             inits |-> IF @.inits < 3 THEN @.inits + 1 ELSE 3]]

\* Variant: one ref for every dependency list; a lazyInit called while the
\* source of another list is realized returns that source.
lazyInitSharedRef(s, e) ==
    IF s.refs[e].current # NoSrc THEN s
    ELSE IF \E f \in Epochs : s.refs[f].current # NoSrc
         THEN [s EXCEPT !.refs[e] = s.refs[CHOOSE f \in Epochs : s.refs[f].current # NoSrc]]
         ELSE factoryInit(s, e)

\* lazyInit of epoch e: `if (ref.current === null) [ref.current, ref.destroy] =
\* init(); return ref.current`.
lazyInit(s, e) ==
    IF s.refs[e].current = NoSrc THEN factoryInit(s, e) ELSE s

\* Variant: a lazyInit called while rendering warns and leaves the ref alone.
lazyInitRenderingRefused(s, e) == IF s.dev THEN warning(s, "render") ELSE s

\* lazyInit called while the component renders: `if (__DEV__) if
\* (isRendering()) warning(...)`, then as in every call.
lazyInitRendering(s, e) == lazyInit(IF s.dev THEN warning(s, "render") ELSE s, e)

\* The App's destroy(source).
destroy(s, id) ==
    IF id = NoSrc \/ ~cfg.hasDestroy THEN s
    ELSE [s EXCEPT !.src[id].status = "destroyed", !.src[id].nd = Sat(@),
                   !.src[id].dws = @ \/ s.src[id].ls # {}]

\* The unsubscribe the App's contract returned (when it returns one).
contractUnsubscribe(s, id) ==
    IF id = NoSrc \/ ~cfg.hasUnsub THEN s
    ELSE [s EXCEPT !.src[id].ls = @ \ {<<"slice", s.src[id].e>>},
                   !.src[id].nu = Sat(@),
                   !.src[id].uad = @ \/ s.src[id].status = "destroyed"]

\* Variant: the wrapper destroys the source before it unsubscribes.
wrappedDestroySwapped(s, id) == contractUnsubscribe(destroy(s, id), id)

\* The destroy the contract families hand to useFactory:
\*   () => { unsubscribe?.(); destroy?.(source); }
wrappedDestroy(s, id) == destroy(contractUnsubscribe(s, id), id)

\* Variant: the cleanup destroys the source and keeps it in the ref.
factoryCleanupKeep(s, e) ==
    LET r == s.refs[e]
    IN  IF ~r.dset THEN s
        ELSE IF cfg.family \in {"conGeneral", "conAtomic"}
             THEN wrappedDestroy(s, r.dsrc)
             ELSE destroy(s, r.current)

\* useFactory's effect cleanup: ref.destroy?.(ref.current); ref.current = null.
factoryCleanup(s, e) ==
    LET r == s.refs[e]
        s1 == IF ~r.dset THEN s
              ELSE IF cfg.family \in {"conGeneral", "conAtomic"}
                   THEN wrappedDestroy(s, r.dsrc)
                   ELSE destroy(s, r.current)
    IN  [s1 EXCEPT !.refs[e].current = NoSrc, !.refs[e].inits = 0]

\* ------------------------------------------- snapshot getters (general)
\* (from: history, the source the snapshot was derived from.)
EmptyMemo == [e |-> 0, gs |-> 0, lrv |-> 0, snapshot |-> Null, from |-> NoSrc]

\* Variant: the getter never derives the snapshot again.
getterCached(s, i, k) == s

\* Variant: the getter derives the snapshot at every call.
getterUngated(s, i, k) ==
    LET m == s.slot[i].m[k]
    IN  [s EXCEPT !.slot[i].m[k] =
            [m EXCEPT !.snapshot = getSourceSnapshot(s, m.e, m.gs, m.snapshot),
                      !.lrv = s.slices[m.e].version,
                      !.from = Current(s, m.e)]]

\* withContract/useSource useSnapshot: the memoized getter.  Memo k of slot i
\* was created for epoch m.e (its ref and Slice) and offset m.gs.
getter(s, i, k) ==
    LET m == s.slot[i].m[k]
    IN  IF m.lrv # s.slices[m.e].version
        THEN [s EXCEPT !.slot[i].m[k] =
                [m EXCEPT !.snapshot = getSourceSnapshot(s, m.e, m.gs, m.snapshot),
                          !.lrv = s.slices[m.e].version,
                          !.from = Current(s, m.e)]]
        ELSE s

\* Variant: the getter derives once and then serves the stored snapshot.
getMemoizedSnapshotStored(s, i, k) ==
    LET m == s.slot[i].m[k]
    IN  IF m.snapshot = Null
        THEN [s EXCEPT !.slot[i].m[k] =
                [m EXCEPT !.snapshot = getSourceSnapshot(s, m.e, m.gs, m.snapshot),
                          !.from = Current(s, m.e)]]
        ELSE s

\* withSubscription/useSource useSnapshot: getMemoizedSnapshot derives the
\* snapshot on every call.
getMemoizedSnapshot(s, i, k) ==
    LET m == s.slot[i].m[k]
    IN  [s EXCEPT !.slot[i].m[k] =
            [m EXCEPT !.snapshot = getSourceSnapshot(s, m.e, m.gs, m.snapshot),
                      !.from = Current(s, m.e)]]

\* The getSnapshot argument of useSyncExternalStore, called.
readSnapshot(s, i, k) ==
    IF cfg.family = "conGeneral" THEN getter(s, i, k) ELSE getMemoizedSnapshot(s, i, k)

\* The memo a render creates when its dependencies ([getSnapshot, slice], or
\* [getSnapshot]) changed.
newMemo(s, e, gs) ==
    IF cfg.family = "conGeneral"
    THEN [e |-> e, gs |-> gs, lrv |-> s.slices[e].version,
          snapshot |-> getSourceSnapshot(s, e, gs, Null), from |-> Current(s, e)]
    ELSE [EmptyMemo EXCEPT !.e = e, !.gs = gs]

\* ----------------------------------- useSyncExternalStore (host runtime)
\* forceStoreRerender when the store's snapshot differs from the one the
\* instance holds.
checkIfSnapshotChanged(s, i) ==
    LET t == readSnapshot(s, i, s.slot[i].ii)
    IN  IF is(t.slot[i].m[t.slot[i].ii].snapshot, t.slot[i].instValue)
        THEN t ELSE [t EXCEPT !.needs = TRUE]

\* Variant: every store change forces a render.
handleStoreChangeAlways(s, i) == [s EXCEPT !.needs = TRUE]

\* The onChange handed to subscribe.
handleStoreChange(s, i) == checkIfSnapshotChanged(s, i)

\* --------------------------------------------------- atomic hook state
\* Variant: the update is queued and no render is scheduled.
setSnapshotNoSchedule(s) == [s EXCEPT !.atom.pending = TRUE]

\* setSnapshot(getSnapshot) / setSnapshot(): an update is queued and a render
\* scheduled; the update function runs in that render.
setSnapshot(s) == [s EXCEPT !.atom.pending = TRUE, !.needs = TRUE]

\* Variant: the atomic listener compares before it queues the update.
onChangeGated(s, i) ==
    IF cfg.family \in {"subGeneral", "conGeneral"} THEN handleStoreChange(s, i)
    ELSE LET e == IF cfg.family = "conAtomic" THEN 1 ELSE s.atom.subE
         IN  IF is(s.slot[1].committed,
                   getSourceSnapshot(s, e, s.atom.used, s.slot[1].committed))
             THEN s ELSE setSnapshot(s)

\* The listener of a useSnapshot call.
onChange(s, i) == IF cfg.family \in {"subGeneral", "conGeneral"}
                  THEN handleStoreChange(s, i) ELSE setSnapshot(s)

NotifySlots(s, L) ==
    LET s1 == IF 1 \in L THEN onChange(s, 1) ELSE s
    IN  IF 2 \in L THEN onChange(s1, 2) ELSE s1

\* ------------------------------------------------------------------ Slice
\* Variant: update notifies the listeners without counting the change.
updateNoVersion(s, e) == NotifySlots(s, s.slices[e].listeners)

\* Variant: update counts the change without notifying the listeners.
updateSilent(s, e) == [s EXCEPT !.slices[e].version = @ + 1]

\* Slice.update: this.version++; this.listeners.forEach(listener => listener()).
update(s, e) ==
    NotifySlots([s EXCEPT !.slices[e].version = @ + 1], s.slices[e].listeners)

\* Slice.subscribe(listener) and the function it returns.
sliceSubscribe(s, e, i) == [s EXCEPT !.slices[e].listeners = @ \cup {i}]
sliceUnsubscribe(s, e, i) == [s EXCEPT !.slices[e].listeners = @ \ {i}]

\* Source.setValue: this.value = value; listeners.forEach(listener => listener()).
\* In the contract families the listener is slice.update, in the ad-hoc ones
\* the onChange of each subscribed useSnapshot call.
setValue(s, id, v) ==
    LET L == s.src[id].ls
        con == cfg.family \in {"conGeneral", "conAtomic"}
        reached == IF con THEN UNION {s.slices[l[2]].listeners : l \in L}
                   ELSE {l[2] : l \in L}
        unmounted == IF con THEN ActiveSlots \ s.slices[s.src[id].e].listeners
                     ELSE IF cfg.family = "subAtomic"
                          THEN (IF s.atom.lsub THEN {} ELSE {1})
                          ELSE {i \in Slots : s.slot[i].sub = <<>>}
        s1 == [s EXCEPT !.src[id].val = v,
                        !.src[id].chgSub = @ \cup reached,
                        !.src[id].chgPre = @ \cup unmounted]
    IN  IF con THEN (IF L = {} THEN s1 ELSE update(s1, s.src[id].e))
        ELSE NotifySlots(s1, {l[2] : l \in L})

\* ------------------------------------------------ the caller's subscribe
\* The App's subscribe(source, onChange): source.addChangeListener(onChange).
\* A null source has nothing to listen to.
subscribe(s, id, i) ==
    LET s1 == IF cfg.family = "subAtomic" THEN [s EXCEPT !.atom.subSrc = id]
              ELSE [s EXCEPT !.slot[i].subSrc = id]
    IN  IF id = NoSrc THEN s1
        ELSE [s1 EXCEPT !.src[id].ls = @ \cup {<<"slot", i>>}]

\* The unsubscribe it returned.
unsubscribe(s, id, i) ==
    IF id = NoSrc THEN s
    ELSE [s EXCEPT !.src[id].ls = @ \ {<<"slot", i>>},
                   !.src[id].uad = @ \/ s.src[id].status = "destroyed"]

\* The __DEV__ comparison of the fallback snapshot with the one derived from
\* the realized source:
\*   fallback = getSnapshot(null, null); snapshot = getSnapshot(lazyInit(), fallback)
\*   if (!is(fallback, snapshot)) warning(...)
mismatchCheck(s, e) ==
    LET t == lazyInit(s, e)
    IN  IF is(getSnapshot(t, NoSrc, 0, e), getSnapshot(t, Current(t, e), 0, e))
        THEN t ELSE warning(t, "mismatch")

\* withSubscription: memoizedSubscribe / subscribeToSource of epoch e, for
\* useSnapshot call i.  usePureSource subscribes to the source it holds.
memoizedSubscribe(s, i, e) ==
    LET s1 == IF s.dev /\ ~cfg.pure THEN mismatchCheck(s, e) ELSE s
        s2 == IF cfg.pure THEN s1 ELSE lazyInit(s1, e)
    IN  subscribe(s2, Current(s2, e), i)

\* ------------------------------------------------------- general families
\* The identity of the subscribe function given to useSyncExternalStore:
\* useCallback(..., [slice]) or useCallback(..., [lazyInit, ...subscribeDeps]).
SubKey(i, e, p) ==
    IF cfg.family = "conGeneral" THEN <<e, 0>>
    ELSE <<e, IF i = 2 THEN p.sk ELSE 0>>

\* The getSnapshot a render passes adds the getSnapshotOffset of that render's
\* props: none, or one that no two values of a source differ by.
Offset(p) == p.gs * (MaxVal + ChainValue + 1)

\* Variant: the getSnapshot dependency list is not looked at.
CapturedFirst(i, cur, e, p, isMount) ==
    IF isMount \/ cur.e # e THEN Offset(p) ELSE cur.gs

\* getSourceSnapshot = useCallback(..., [ref, ...getSnapshotDeps]): the offset
\* of the getSnapshot that useSnapshot call i works with.  Call 2 lists the
\* offset as a getSnapshot dependency, call 1 gives no getSnapshot
\* dependencies and keeps the function of the render that created the ref.
Captured(i, cur, e, p, isMount) ==
    IF i = 2 \/ isMount \/ cur.e # e THEN Offset(p) ELSE cur.gs

\* useSourceSnapshot -> useSnapshot, rendering call i in epoch e.
useSnapshot(s, i, e, p, isMount) ==
    LET sl == s.slot[i]
        cur == sl.m[sl.wi]
        gs == Captured(i, cur, e, p, isMount)
        fresh == isMount \/ cur.e # e \/ cur.gs # gs
        k == IF isMount THEN 1 ELSE IF fresh THEN 3 - sl.ii ELSE sl.wi
        s1 == IF fresh
              THEN [s EXCEPT !.slot[i].m[k] = newMemo(s, e, gs), !.slot[i].wi = k]
              ELSE s
        \* __DEV__, withSubscription: getSnapshot must be stable.
        a == getMemoizedSnapshot(s1, i, k)
        b == getMemoizedSnapshot(a, i, k)
        s2 == IF s.dev /\ cfg.family = "subGeneral"
              THEN (IF is(a.slot[i].m[k].snapshot, b.slot[i].m[k].snapshot)
                    THEN b ELSE warning(b, "unstable"))
              ELSE s1
        s3 == readSnapshot(s2, i, k)
        v == s3.slot[i].m[k].snapshot
        s4 == [s3 EXCEPT !.slot[i].rendered = v, !.slot[i].rfrom = s3.slot[i].m[k].from]
    IN  IF isMount THEN [s4 EXCEPT !.slot[i].instValue = v, !.slot[i].ii = k]
        ELSE s4

\* subscribeToStore: the passive effect that subscribes call i.
subscribeToStore(s, i, e, p) ==
    LET s1 == IF cfg.family = "conGeneral" THEN sliceSubscribe(s, e, i)
              ELSE memoizedSubscribe(s, i, e)
    IN  [s1 EXCEPT !.slot[i].sub = SubKey(i, e, p)]

\* Its cleanup.
unsubscribeFromStore(s, i) ==
    LET sl == s.slot[i]
        s1 == IF sl.sub = <<>> THEN s
              ELSE IF cfg.family = "conGeneral" THEN sliceUnsubscribe(s, sl.sub[1], i)
              ELSE unsubscribe(s, sl.subSrc, i)
    IN  [s1 EXCEPT !.slot[i].sub = <<>>, !.slot[i].subSrc = NoSrc]

\* updateStoreInstance: inst.value = nextSnapshot; inst.getSnapshot = getSnapshot;
\* then the check for a change between render and commit.
updateStoreInstance(s, i) ==
    checkIfSnapshotChanged(
        [s EXCEPT !.slot[i].instValue = s.slot[i].committed, !.slot[i].ii = s.slot[i].wi], i)

\* -------------------------------------------------------- atomic families
\* useSnapshot of the atomic families, rendered: useState(() =>
\* getSnapshot(null)) / useReducer(getSnapshot, null, getSnapshot).  A queued
\* setSnapshot is applied by the render: withContract with the getSnapshot
\* that useCallback(getSnapshot, []) kept from the mount, withSubscription
\* with the reducer this render passes.  (used: history, the offset of the
\* getSnapshot that derived the rendered snapshot.)
useAtomicSnapshot(s, e, p, isMount) ==
    LET recompute == isMount \/ s.atom.pending
        g == IF cfg.family = "conAtomic" /\ ~isMount THEN s.atom.gs ELSE Offset(p)
        v == getSourceSnapshot(s, e, g, s.slot[1].rendered)
    IN  [s EXCEPT !.slot[1].rendered = IF recompute THEN v ELSE @,
                  !.atom.pending = FALSE,
                  !.atom.gs = IF isMount THEN Offset(p) ELSE @,
                  !.atom.used = IF recompute THEN g ELSE @,
                  !.atom.initialVersion = s.slices[e].version]

\* withContract/useAtomicSource: the layout effect of useSnapshot.
\*   if (initialVersion !== slice.version) setSnapshot(getSnapshot);
\*   return slice.subscribe(() => setSnapshot(getSnapshot));
sliceLayoutEffect(s) ==
    LET s1 == IF s.atom.initialVersion # s.slices[1].version THEN setSnapshot(s) ELSE s
    IN  [sliceSubscribe(s1, 1, 1) EXCEPT !.atom.lsub = TRUE]

\* withSubscription/useAtomicSource: the layout effect of useSnapshot.
\*   if (!is(snapshot, getSnapshot(snapshot))) setSnapshot();
\*   return subscribe(setSnapshot);
subscribeLayoutEffect(s, e, p) ==
    LET snapshot == s.slot[1].committed
        s1 == IF ~is(snapshot, getSourceSnapshot(s, e, Offset(p), snapshot))
              THEN setSnapshot(s) ELSE s
        s2 == memoizedSubscribe(s1, 1, e)
    IN  [s2 EXCEPT !.atom.lsub = TRUE, !.atom.subE = e, !.atom.subK = p.sk]

\* Variant: the layout effect subscribes without the check that precedes it.
layoutEffectNoCheck(s, e, p) ==
    IF cfg.family = "conAtomic"
    THEN [sliceSubscribe(s, 1, 1) EXCEPT !.atom.lsub = TRUE]
    ELSE [memoizedSubscribe(s, 1, e) EXCEPT !.atom.lsub = TRUE, !.atom.subE = e,
                                            !.atom.subK = p.sk]

layoutEffect(s, e, p) ==
    IF cfg.family = "conAtomic" THEN sliceLayoutEffect(s)
    ELSE subscribeLayoutEffect(s, e, p)

\* Variant: the cleanup of the ad-hoc layout effect drops the subscription
\* without calling the unsubscribe that subscribe returned.
layoutCleanupForget(s) ==
    LET s1 == IF cfg.family = "conAtomic" THEN sliceUnsubscribe(s, 1, 1) ELSE s
    IN  [s1 EXCEPT !.atom.lsub = FALSE, !.atom.subSrc = NoSrc]

\* The cleanup of that layout effect.
layoutCleanup(s) ==
    LET s1 == IF cfg.family = "conAtomic" THEN sliceUnsubscribe(s, 1, 1)
              ELSE unsubscribe(s, s.atom.subSrc, 1)
    IN  [s1 EXCEPT !.atom.lsub = FALSE, !.atom.subSrc = NoSrc]

\* Is the subscribe given to the atomic useSnapshot a memoized one
\* (useCallback(subscribeToSource, subscribeDeps) / usePureSource), or a new
\* function on every render?
MemoizedSubscribe == cfg.pure \/ cfg.subDeps

\* Did the [subscribe] dependency of the layout effect change in this render?
SubscribeChanged(s, p) ==
    cfg.family = "subAtomic" /\ (~MemoizedSubscribe \/ p.sk # s.atom.subK)

\* ----------------------------------------------------- render and commit
\* The App's yieldValue('render', `snapshot(${value})`).
yieldRender(s) == yieldValue(s, "render", s.slot[1].rendered)

\* The App of the 'getSource on render' tests ends its body with
\* `return getSource()`.
readInRender(s, e) ==
    IF cfg.readsInRender /\ ~cfg.pure THEN lazyInitRendering(s, e) ELSE s

\* One render of the component: usePureFactory realizes the source in the
\* render, then the useSnapshot calls run in order and the App yields.
Render(s, e, p, isMount) ==
    LET s0 == [s EXCEPT !.needs = FALSE]
        s1 == IF cfg.pure /\ s0.refs[e].current = NoSrc THEN factoryInit(s0, e) ELSE s0
    IN  readInRender(
            yieldRender(IF cfg.family \in {"subGeneral", "conGeneral"}
                        THEN useSnapshot(useSnapshot(s1, 1, e, p, isMount), 2, e, p, isMount)
                        ELSE useAtomicSnapshot(s1, e, p, isMount)), e)

\* A render that produced the snapshots already committed is dropped; only
\* the getters' caches keep what they derived.
BailOut(s, t) ==
    [t EXCEPT !.slot = [i \in Slots |->
                 [t.slot[i] EXCEPT !.rendered = s.slot[i].rendered,
                                   !.rfrom = s.slot[i].rfrom]],
              !.atom.initialVersion = s.atom.initialVersion]

\* Mutation phase: the rendered snapshots become the committed ones, and the
\* cleanups of the layout effects whose dependencies changed run.
Mutation(s, p) ==
    LET s1 == [s EXCEPT !.slot = [i \in Slots |->
                  [s.slot[i] EXCEPT !.committed = s.slot[i].rendered,
                                    !.cfrom = s.slot[i].rfrom]]]
    IN  IF s1.atom.lsub /\ SubscribeChanged(s1, p) THEN layoutCleanup(s1) ELSE s1

\* Layout phase: the layout effects that are not mounted run.
Layout(s, e, p) ==
    IF cfg.family \in {"subAtomic", "conAtomic"} /\ ~s.atom.lsub
    THEN layoutEffect(s, e, p) ELSE s

\* Variant: a subscription ends only when every effect is torn down.
UnsubscribeOnTeardown(s, i, e, p, all) ==
    IF cfg.family \in {"subGeneral", "conGeneral"} /\ s.slot[i].sub # <<>> /\ all
    THEN unsubscribeFromStore(s, i) ELSE s

\* Variant: a new getter also ends the subscription.
UnsubscribeIfNewGetter(s, i, e, p, all) ==
    IF cfg.family \in {"subGeneral", "conGeneral"} /\ s.slot[i].sub # <<>>
       /\ (all \/ s.slot[i].sub # SubKey(i, e, p) \/ s.slot[i].wi # s.slot[i].ii)
    THEN unsubscribeFromStore(s, i) ELSE s

\* Passive cleanups, in hook order: useFactory's effect (dependencies
\* changed), then the subscribeToStore of each useSnapshot call.
UnsubscribeIfChanged(s, i, e, p, all) ==
    IF cfg.family \in {"subGeneral", "conGeneral"} /\ s.slot[i].sub # <<>>
       /\ (all \/ s.slot[i].sub # SubKey(i, e, p))
    THEN unsubscribeFromStore(s, i) ELSE s

\* Variant: the subscriptions are cleaned up before useFactory's effect.
PassiveCleanupsUnsubscribeFirst(s, ce, e, p, all) ==
    LET s1 == UnsubscribeIfChanged(UnsubscribeIfChanged(s, 1, e, p, all), 2, e, p, all)
    IN  IF ~cfg.pure /\ ce # 0 /\ (all \/ ce # e) THEN factoryCleanup(s1, ce) ELSE s1

PassiveCleanups(s, ce, e, p, all) ==
    LET s1 == IF ~cfg.pure /\ ce # 0 /\ (all \/ ce # e) THEN factoryCleanup(s, ce) ELSE s
    IN  UnsubscribeIfChanged(UnsubscribeIfChanged(s1, 1, e, p, all), 2, e, p, all)

\* The passive effects of one useSnapshot call of the general families:
\* (__DEV__, contract) the mismatch check, subscribeToStore, updateStoreInstance.
SlotEffects(s, i, e, p, all) ==
    LET s1 == IF all /\ s.dev /\ ~cfg.pure /\ cfg.family = "conGeneral"
              THEN mismatchCheck(s, e) ELSE s
        resub == s1.slot[i].sub = <<>>
        dirty == all \/ resub \/ s1.slot[i].ii # s1.slot[i].wi
                 \/ ~is(s1.slot[i].committed, s1.slot[i].instValue)
        s2 == IF resub THEN subscribeToStore(s1, i, e, p) ELSE s1
    IN  IF dirty THEN updateStoreInstance(s2, i) ELSE s2

\* The test App's own effect, which runs after every commit:
\*   const source = getSource(); if (value === 2) source.setValue(3);
\*   yieldValue('effect', ...)
\* (the usePureSource App holds the source itself).
getSource(s, e) == IF cfg.pure THEN s ELSE lazyInit(s, e)

dispatchFromEffect(s, e) ==
    IF s.slot[1].committed = TriggerValue /\ Current(s, e) # NoSrc
    THEN setValue(s, Current(s, e), ChainValue) ELSE s

yieldEffect(s) == yieldValue(s, "effect", s.slot[1].committed)

AppEffect(s, e) ==
    IF cfg.effect THEN yieldEffect(dispatchFromEffect(getSource(s, e), e)) ELSE s

\* Variant: useFactory's effect does not call lazyInit.
PassiveCreatesNoInit(s, ce, e, p, all) ==
    AppEffect(IF cfg.family \in {"subGeneral", "conGeneral"}
              THEN SlotEffects(SlotEffects(s, 1, e, p, all), 2, e, p, all)
              ELSE IF all /\ s.dev /\ ~cfg.pure /\ cfg.family = "conAtomic"
                   THEN mismatchCheck(s, e) ELSE s, e)

\* Passive creates, in hook order: useFactory's effect, the effects of the
\* useSnapshot calls, then the consumer's own effect if it has one.
PassiveCreates(s, ce, e, p, all) ==
    LET s1 == IF ~cfg.pure /\ (all \/ ce # e) THEN lazyInit(s, e) ELSE s
    IN  AppEffect(IF cfg.family \in {"subGeneral", "conGeneral"}
                  THEN SlotEffects(SlotEffects(s1, 1, e, p, all), 2, e, p, all)
                  ELSE IF all /\ s.dev /\ ~cfg.pure /\ cfg.family = "conAtomic"
                       THEN mismatchCheck(s1, e) ELSE s1, e)

\* ------------------------------------------------------------ Slice, alone
\* The Slice class by itself, as any caller may use it: `version`, and
\* `listeners`, a Set.  A Set keeps its entries in insertion order; forEach
\* walks that list by position, a deleted entry is left empty where it was,
\* an added one is appended.  `ls` is that list (0: an emptied entry).
\* The other fields are history: the listener invocations of the latest
\* outermost update() with the version each one read (log), the listeners and
\* the version when it began (start, startVersion), the listeners deleted
\* while it ran (removed), whether the invocations were followed to the end
\* (cut), the update() calls made (nupd), the subscribe() calls made for a
\* listener since it was last deleted (nsub), and the latest call (last).
Listeners == 1..3

\* What a listener does when it is invoked.
Behaviours == {"noop", "subNew", "unsubSelf", "unsubOther", "resub", "update"}

\* The listener another listener subscribes or unsubscribes.
Other(l) == (l % 3) + 1

NewSlice(b) ==
    [version |-> 0, ls |-> <<>>, beh |-> b, log |-> <<>>, start |-> {},
     startVersion |-> 0, removed |-> {}, cut |-> FALSE, nupd |-> 0,
     nsub |-> [l \in Listeners |-> 0],
     last |-> [op |-> "new", l |-> 0, was |-> FALSE]]

\* The entries of the Set.
Live(z) == {z.ls[k] : k \in 1..Len(z.ls)} \ {0}

\* Variant: add appends the listener even when the Set holds it.
Set_addAgain(z, l) == [z EXCEPT !.ls = Append(@, l)]

\* Set.prototype.add
Set_add(z, l) == IF l \in Live(z) THEN z ELSE [z EXCEPT !.ls = Append(@, l)]

\* Set.prototype.delete
Set_delete(z, l) ==
    [z EXCEPT !.ls = [k \in 1..Len(z.ls) |-> IF z.ls[k] = l THEN 0 ELSE z.ls[k]],
              !.removed = @ \cup ({l} \cap Live(z))]

\* Slice.subscribe: this.listeners.add(listener).
Slice_subscribe(z, l) ==
    [Set_add(z, l) EXCEPT !.nsub[l] = IF l \in Live(z) THEN 2 ELSE 1]

\* Variant: the returned function empties the whole Set.
Slice_unsubscribeAll(z, l) ==
    [z EXCEPT !.ls = [k \in 1..Len(z.ls) |-> 0],
              !.removed = @ \cup Live(z),
              !.nsub = [m \in Listeners |-> 0]]

\* The function Slice.subscribe returns: () => void this.listeners.delete(listener).
Slice_unsubscribe(z, l) == [Set_delete(z, l) EXCEPT !.nsub[l] = 0]

RECURSIVE Slice_forEach(_, _)
RECURSIVE Slice_update(_)

\* A listener, invoked: it reads the version, then does what its kind does.
\* One that calls update() does so a bounded number of times.
listener(z, l) ==
    LET b == z.beh[l]
        z1 == [z EXCEPT !.log = Append(@, <<l, z.version>>)]
    IN  CASE b = "noop" -> z1
          [] b = "subNew" -> Slice_subscribe(z1, Other(l))
          [] b = "unsubSelf" -> Slice_unsubscribe(z1, l)
          [] b = "unsubOther" -> Slice_unsubscribe(z1, Other(l))
          [] b = "resub" -> Slice_subscribe(Slice_unsubscribe(z1, l), l)
          [] OTHER -> IF z1.nupd < MaxUpd THEN Slice_update(z1) ELSE z1

\* this.listeners.forEach((listener) => listener()), from position pos on.
Slice_forEach(z, pos) ==
    IF pos > Len(z.ls) THEN z
    ELSE IF z.ls[pos] = 0 THEN Slice_forEach(z, pos + 1)
    ELSE IF Len(z.log) >= MaxInvoke THEN [z EXCEPT !.cut = TRUE]
    ELSE Slice_forEach(listener(z, z.ls[pos]), pos + 1)

\* Variant: update leaves the version as it is.
Slice_updateSameVersion(z) == Slice_forEach([z EXCEPT !.nupd = @ + 1], 1)

\* Variant: update notifies the listeners first and counts the change after.
Slice_updateNotifyFirst(z) ==
    [Slice_forEach([z EXCEPT !.nupd = @ + 1], 1) EXCEPT !.version = @ + 1]

\* Slice.update: this.version++; this.listeners.forEach(...).
Slice_update(z) ==
    Slice_forEach([z EXCEPT !.version = @ + 1, !.nupd = @ + 1], 1)

\* Between calls the emptied entries of the Set are gone.
Compact(z) == [z EXCEPT !.ls = SelectSeq(@, LAMBDA x : x # 0)]

\* ---------------------------------------------------------- initial state
EmptySlot ==
    [m |-> <<EmptyMemo, EmptyMemo>>, wi |-> 1, ii |-> 1, instValue |-> Null,
     sub |-> <<>>, subSrc |-> NoSrc, rendered |-> Null, committed |-> Null,
     rfrom |-> NoSrc, cfrom |-> NoSrc]

EmptyAtom ==
    [pending |-> FALSE, initialVersion |-> 0, lsub |-> FALSE, subSrc |-> NoSrc,
     subE |-> 0, subK |-> 0, gs |-> 0, used |-> 0]

BaseCfg ==
    [family |-> "subGeneral", pure |-> FALSE, nullSrc |-> FALSE, fallback |-> "match",
     hasDestroy |-> TRUE, hasUnsub |-> TRUE, dev |-> TRUE, subDeps |-> FALSE,
     effect |-> FALSE, readsInRender |-> FALSE]

\* The ways the hooks are called that the model explores.
Configs ==
    {[BaseCfg EXCEPT !.family = f] : f \in Families}
    \cup {[BaseCfg EXCEPT !.family = f, !.fallback = "mismatch"] : f \in Families}
    \cup {[BaseCfg EXCEPT !.family = f, !.pure = TRUE, !.hasDestroy = FALSE,
                          !.hasUnsub = FALSE] : f \in Families}
    \cup {[BaseCfg EXCEPT !.family = f, !.nullSrc = TRUE] : f \in {"subGeneral", "subAtomic"}}
    \cup {[BaseCfg EXCEPT !.family = f, !.hasDestroy = d, !.hasUnsub = u] :
             f \in {"conGeneral", "conAtomic"}, d \in BOOLEAN, u \in BOOLEAN}
    \cup {[BaseCfg EXCEPT !.family = f, !.dev = FALSE, !.fallback = "mismatch"] :
             f \in {"subGeneral", "subAtomic"}}
    \cup {[BaseCfg EXCEPT !.family = "subAtomic", !.subDeps = TRUE]}
    \cup {[BaseCfg EXCEPT !.family = f, !.dev = FALSE] : f \in {"conGeneral", "conAtomic"}}
    \cup {[BaseCfg EXCEPT !.family = "subGeneral", !.hasDestroy = FALSE]}
    \cup {[BaseCfg EXCEPT !.family = f, !.effect = TRUE] : f \in Families}
    \cup {[BaseCfg EXCEPT !.family = f, !.readsInRender = TRUE, !.dev = d] :
             f \in {"subGeneral", "conAtomic"}, d \in BOOLEAN}
    \cup {[BaseCfg EXCEPT !.family = "subGeneral", !.readsInRender = TRUE, !.nullSrc = TRUE]}

\* ------------------------------------------------ objectIs, shallowEqual
\* The JavaScript values shallowEqual is called with: null, the numbers +0,
\* -0 and NaN, and the two objects o1 and o2.  A property holds a number or
\* a reference to one of two further objects, r1 and r2.
Numbers == {"+0", "-0", "NaN"}
Refs == {"r1", "r2"}
Objs == {"o1", "o2"}
PropValues == Numbers \cup Refs
Arguments == {"null"} \cup Numbers \cup Objs

\* Own property keys; "b" may be non-enumerable (as an array's length is).
Keys == {"a", "b"}
Props == [key : Keys, value : PropValues, enumerable : BOOLEAN]

\* An object: its own properties in creation order.
Objects ==
    {o \in UNION {[1..n -> Props] : n \in 0..MaxKeys} :
        /\ \A i, j \in DOMAIN o : i # j => o[i].key # o[j].key
        /\ \A i \in DOMAIN o : o[i].key = "a" => o[i].enumerable}

NoCmp == [a |-> "null", b |-> "null", heap |-> [o \in Objs |-> <<>>],
          done |-> FALSE, result |-> FALSE]

typeof(x) == IF x \in Numbers THEN "number" ELSE "object"

\* x === y
StrictEquals(x, y) ==
    IF x = "NaN" \/ y = "NaN" THEN FALSE
    ELSE IF x \in {"+0", "-0"} /\ y \in {"+0", "-0"} THEN TRUE
    ELSE x = y

\* 1 / x, for the zeros
Reciprocal(x) == IF x = "+0" THEN "+Infinity" ELSE "-Infinity"

\* Variant: plain strict equality.
objectIsStrict(x, y) == StrictEquals(x, y)

\* objectIs.ts:
\*   (x === y && (x !== 0 || 1 / x === 1 / y)) || (x !== x && y !== y)
objectIs(x, y) ==
    \/ /\ StrictEquals(x, y)
       /\ (~StrictEquals(x, "+0") \/ Reciprocal(x) = Reciprocal(y))
    \/ (~StrictEquals(x, x) /\ ~StrictEquals(y, y))

\* Object.keys(obj): the enumerable own keys, in order.
ObjectKeys(o) ==
    LET F[n \in 0..Len(o)] ==
            IF n = 0 THEN <<>>
            ELSE IF o[n].enumerable THEN Append(F[n - 1], o[n].key) ELSE F[n - 1]
    IN  F[Len(o)]

\* Object.prototype.hasOwnProperty.call(obj, key)
hasOwnProperty(o, k) == \E i \in DOMAIN o : o[i].key = k

\* obj[key]; undefined when obj has no such property.
Get(o, k) ==
    IF hasOwnProperty(o, k) THEN o[CHOOSE i \in DOMAIN o : o[i].key = k].value
    ELSE "undefined"

\* The loop over keysA, from index i on.
RECURSIVE keysLoop(_, _, _, _)
keysLoop(objA, objB, keysA, i) ==
    IF i > Len(keysA) THEN TRUE
    ELSE IF ~hasOwnProperty(objB, keysA[i])
            \/ ~objectIs(Get(objA, keysA[i]), Get(objB, keysA[i]))
         THEN FALSE
         ELSE keysLoop(objA, objB, keysA, i + 1)

\* shallowEqual(objA, objB), the objects being those of heap h.
shallowEqual(h, a, b) ==
    IF objectIs(a, b) THEN TRUE
    ELSE IF typeof(a) # "object" \/ a = "null" \/ typeof(b) # "object" \/ b = "null"
         THEN FALSE
    ELSE IF Len(ObjectKeys(h[a])) # Len(ObjectKeys(h[b])) THEN FALSE
    ELSE keysLoop(h[a], h[b], ObjectKeys(h[a]), 1)

\* ------------------------------------- dependency lists and identities
\* The values a dependency list holds, and the lists a caller passes.
DepValues == {"A", "NaN", "+0", "-0"}
DepLists == UNION {[1..n -> DepValues] : n \in 1..MaxDeps}

\* Variant: only the first dependency is compared.
areHookInputsEqualFirst(nextDeps, prevDeps) == objectIs(nextDeps[1], prevDeps[1])

\* The host's comparison of a hook's dependency list with the previous
\* render's: Object.is at every position both lists have.
RECURSIVE areHookInputsEqualFrom(_, _, _)
areHookInputsEqualFrom(nextDeps, prevDeps, i) ==
    IF i > Len(prevDeps) \/ i > Len(nextDeps) THEN TRUE
    ELSE IF objectIs(nextDeps[i], prevDeps[i])
         THEN areHookInputsEqualFrom(nextDeps, prevDeps, i + 1)
         ELSE FALSE

areHookInputsEqual(nextDeps, prevDeps) == areHookInputsEqualFrom(nextDeps, prevDeps, 1)

\* What one useSource call has returned and holds: the dependency list of
\* the latest render, the identities (numbered as created) of ref, lazyInit,
\* the Slice and the useSnapshot hook, the identity of a value another hook
\* memoizes with [lazyInit] as its dependency list, the number of objects
\* created and of renders.
NoFac == [deps |-> <<>>, ref |-> 0, lazyInit |-> 0, slice |-> 0, hook |-> 0,
          follower |-> 0, made |-> 0, renders |-> 0]

\* useFactory's useMemo(() => [ref, lazyInit], deps).
useFactoryMemo(f, deps) ==
    IF f.renders > 0 /\ areHookInputsEqual(deps, f.deps) THEN f
    ELSE [f EXCEPT !.ref = f.made + 1, !.lazyInit = f.made + 2, !.made = f.made + 2]

\* withContract: useMemo(() => new Slice(), deps).
useSliceMemo(f, g, deps) ==
    IF cfg.family # "conGeneral" \/ (f.renders > 0 /\ areHookInputsEqual(deps, f.deps))
    THEN g
    ELSE [g EXCEPT !.slice = g.made + 1, !.made = g.made + 1]

\* useCallback(useSourceSnapshot, [ref, lazyInit]) / [lazyInit, ref, slice].
useSourceSnapshotCallback(f, g) ==
    IF f.renders > 0 /\ g.ref = f.ref /\ g.lazyInit = f.lazyInit /\ g.slice = f.slice
    THEN g
    ELSE [g EXCEPT !.hook = g.made + 1, !.made = g.made + 1]

\* A second source, useSource(() => [new Container(getItem())], [getItem]):
\* its memo, keyed by the identity of lazyInit.
useFollowerMemo(f, g) ==
    IF f.renders > 0 /\ g.lazyInit = f.lazyInit THEN g
    ELSE [g EXCEPT !.follower = g.made + 1, !.made = g.made + 1]

\* One render of the component calling useSource(init, deps, ...).
useSourceRender(f, deps) ==
    LET g1 == useFactoryMemo(f, deps)
        g2 == useSliceMemo(f, g1, deps)
        g3 == useSourceSnapshotCallback(f, g2)
        g4 == useFollowerMemo(f, g3)
    IN  [g4 EXCEPT !.deps = deps, !.renders = f.renders + 1]

\* ------------------------------------------- isServer, index.ts, server.ts
\* isServer.ts: evaluated when the module is loaded, from the `window` of
\* that moment.
isServer(window) == ~window

\* The host: whether `window` exists now, isServer as the module computed
\* it, which implementation the latest hook call ran, how many hook calls a
\* static render made, and the source the latest call handed back
\* (getSource() of useSource, the second element of usePureSource).
LoadModule(window) ==
    [window |-> window, isServer |-> isServer(window), ran |-> "none",
     calls |-> 0, source |-> Null]

\* Variant: the implementation is looked up from `window` at every call.
useSourceExportPerCall(h) == IF h.window THEN "client" ELSE "server"

\* index.ts: export const [useSource, usePureSource] = !isServer ? client : server
useSourceExport(h) == IF ~h.isServer THEN "client" ELSE "server"

\* The snapshots of a static render: the App's useSnapshot(getSnapshot) calls
\* (general families) or the snapshot element of the hook's result (atomic
\* families), derived from `source` with a null current snapshot.
serverSnapshots(s, source, e, p) ==
    [s EXCEPT !.slot = [i \in Slots |->
        IF i \in ActiveSlots
        THEN [s.slot[i] EXCEPT !.rendered = getSnapshot(s, source, Offset(p), e),
                               !.rfrom = source]
        ELSE s.slot[i]]]

\* server.ts useSource: [getSnapshot => getSnapshot(null, null), () => null];
\* atomic: [getSnapshot(null, null), () => null].
serverUseSource(s, e, p) == serverSnapshots(s, NoSrc, e, p)

\* Variant: the static usePureSource keeps the source of an earlier call.
serverUsePureSourceKept(s, e, p) ==
    IF NewId(s) > 1 THEN serverSnapshots(s, NewId(s) - 1, e, p)
    ELSE serverSnapshots(init(s, e), NewId(s), e, p)

\* server.ts usePureSource: const source = init();
\* [getSnapshot => getSnapshot(source, null), source].
serverUsePureSource(s, e, p) == serverSnapshots(init(s, e), NewId(s), e, p)

\* The source the static hook hands back.
serverSource(s) == IF cfg.pure THEN NewId(s) - 1 ELSE NoSrc

Init ==
    /\ cfg \in Configs
    /\ pc = "unmounted"
    /\ props = [gs |-> 0, sk |-> 0]
    /\ epoch = 1
    /\ cepoch = 0
    /\ refs = [e \in Epochs |-> [current |-> NoSrc, dset |-> FALSE, dsrc |-> NoSrc, inits |-> 0]]
    /\ slices = [e \in Epochs |-> [version |-> 0, listeners |-> {}]]
    /\ src = [j \in Srcs |-> EmptySrc]
    /\ slot = [i \in Slots |-> EmptySlot]
    /\ atom = EmptyAtom
    /\ needs = FALSE
    /\ warned = {}
    /\ env = 0
    /\ obs = NoObs
    /\ out = NoOut
    /\ slc = NewSlice([l \in Listeners |-> "noop"])
    /\ host = LoadModule(TRUE)
    /\ cmp = NoCmp
    /\ fac = NoFac

\* ----------------------------------------------------------------- actions
Idle == pc \in {"idle", "mounted"}

\* The component mounts: its first render.
Mount ==
    /\ pc = "unmounted"
    /\ Put(Render(St, epoch, props, TRUE))
    /\ pc' = "rendered"
    /\ UNCHANGED <<cfg, props, epoch, cepoch, env, slc, host, cmp, fac>>

\* Which of the hook's dependency lists can change between renders.
DepsAllowed == ~(cfg.family = "conAtomic") /\ ~(cfg.family = "subAtomic" /\ cfg.pure)
SkAllowed == cfg.family = "subGeneral" \/ (cfg.family = "subAtomic" /\ MemoizedSubscribe)

\* The parent renders the component again, with the same props or with one
\* changed dependency list: the source's, getSnapshot's or subscribe's.
ParentRerender ==
    /\ Idle
    /\ \E kind \in {"none", "deps", "gs", "sk"} :
         /\ kind = "deps" => DepsAllowed /\ env < MaxEnv /\ epoch < MaxEpoch
         /\ kind = "gs" => env < MaxEnv
         /\ kind = "sk" => SkAllowed /\ env < MaxEnv
         /\ epoch' = IF kind = "deps" THEN epoch + 1 ELSE epoch
         /\ env' = IF kind = "none" THEN env ELSE env + 1
         /\ props' = [gs |-> IF kind = "gs" THEN 1 - props.gs ELSE props.gs,
                      sk |-> IF kind = "sk" THEN 1 - props.sk ELSE props.sk]
         /\ Put(Render(getValues(St), epoch', props', FALSE))
    /\ pc' = "rendered"
    /\ UNCHANGED <<cfg, cepoch, slc, host, cmp, fac>>

\* The render a store change or a setSnapshot scheduled.
Rerender ==
    /\ Idle
    /\ needs
    /\ LET t == Render(St, epoch, props, FALSE)
       IN  IF \A i \in ActiveSlots : is(t.slot[i].rendered, slot[i].committed)
           THEN Put(BailOut(St, t)) /\ pc' = "idle"
           ELSE Put(t) /\ pc' = "rerendered"
    /\ UNCHANGED <<cfg, props, epoch, cepoch, env, slc, host, cmp, fac>>

CommitMutation ==
    /\ pc \in {"rendered", "rerendered"}
    /\ Put(Mutation(St, props))
    /\ pc' = "layout"
    /\ UNCHANGED <<cfg, props, epoch, cepoch, env, slc, host, cmp, fac>>

CommitLayout ==
    /\ pc = "layout"
    /\ Put(Layout(St, epoch, props))
    /\ pc' = "passivePending"
    /\ UNCHANGED <<cfg, props, epoch, cepoch, env, slc, host, cmp, fac>>

PassiveCleanup ==
    /\ pc = "passivePending"
    /\ Put(PassiveCleanups(St, cepoch, epoch, props, FALSE))
    /\ pc' = "passive"
    /\ UNCHANGED <<cfg, props, epoch, cepoch, env, slc, host, cmp, fac>>

PassiveCreate ==
    /\ pc = "passive"
    /\ Put(PassiveCreates(St, cepoch, epoch, props, cepoch = 0))
    /\ pc' = IF cepoch = 0 THEN "mounted" ELSE "idle"
    /\ cepoch' = epoch
    /\ UNCHANGED <<cfg, props, epoch, env, slc, host, cmp, fac>>

\* Strict mode, right after the mount: every effect of the component is
\* cleaned up (layout effects, then passive effects) ...
Disconnect ==
    /\ pc = "mounted"
    /\ cfg.dev
    /\ Put(PassiveCleanups(IF atom.lsub THEN layoutCleanup(getValues(St)) ELSE getValues(St),
                           cepoch, epoch, props, TRUE))
    /\ pc' = "hidden"
    /\ UNCHANGED <<cfg, props, epoch, cepoch, env, slc, host, cmp, fac>>

\* ... and run again: the layout effects ...
ReconnectLayout ==
    /\ pc = "hidden"
    /\ Put(Layout(St, epoch, props))
    /\ pc' = "hiddenPassive"
    /\ UNCHANGED <<cfg, props, epoch, cepoch, env, slc, host, cmp, fac>>

\* ... then the passive effects.
ReconnectPassive ==
    /\ pc = "hiddenPassive"
    /\ Put(PassiveCreates(St, cepoch, epoch, props, TRUE))
    /\ pc' = "idle"
    /\ UNCHANGED <<cfg, props, epoch, cepoch, env, slc, host, cmp, fac>>

\* The component unmounts: layout cleanups, then passive cleanups.
Unmount ==
    /\ Idle
    /\ Put(PassiveCleanups(IF atom.lsub THEN layoutCleanup(getValues(St)) ELSE getValues(St),
                           cepoch, epoch, props, TRUE))
    /\ pc' = "dead"
    /\ UNCHANGED <<cfg, props, epoch, cepoch, env, slc, host, cmp, fac>>

\* The lazyInit in reach of the code around the component: the one of the
\* committed render, or, inside a commit, the one of the render being committed.
ReachableEpoch == IF pc \in {"rendered", "rerendered"} THEN cepoch ELSE epoch

\* The offset of the getSnapshot that derived the snapshot of call i.
UsedOffset(i) == IF General THEN slot[i].m[slot[i].wi].gs ELSE atom.used

\* The values the environment dispatches: the special value 2 only to the
\* test App, whose effect answers it.
Dispatched == Values \cup (IF cfg.effect THEN {TriggerValue} ELSE {})

\* The test starts a new record when it dispatches to the source of the
\* committed render while the test App is at rest.
Watch(s, id, v) ==
    IF cfg.effect /\ pc = "idle" /\ ~needs /\ id = refs[epoch].current
    THEN [s EXCEPT !.obs = [on |-> TRUE, from |-> slot[1].committed,
                            to |-> v + UsedOffset(1),
                            log |-> <<>>]]
    ELSE getValues(s)

\* A child's effect, an event handler or a timer mutates a source.
EnvSetValue ==
    /\ pc \notin {"unmounted", "dead"}
    /\ env < MaxEnv
    /\ \E id \in Srcs, v \in Dispatched :
         /\ src[id].status = "live"
         /\ Put(setValue(Watch(St, id, v), id, v))
    /\ env' = env + 1
    /\ UNCHANGED <<cfg, pc, props, epoch, cepoch, slc, host, cmp, fac>>

\* A child's effect or an event handler calls lazyInit() (getSource()).
EnvLazyInit ==
    /\ pc \notin {"unmounted", "dead"}
    /\ ~cfg.pure
    /\ env < MaxEnv
    /\ ReachableEpoch # 0
    /\ refs[ReachableEpoch].current = NoSrc
    /\ Put(lazyInit(getValues(St), ReachableEpoch))
    /\ env' = env + 1
    /\ UNCHANGED <<cfg, pc, props, epoch, cepoch, slc, host, cmp, fac>>

Next ==
    \/ Mount
    \/ ParentRerender
    \/ Rerender
    \/ CommitMutation
    \/ CommitLayout
    \/ PassiveCleanup
    \/ PassiveCreate
    \/ Disconnect
    \/ ReconnectLayout
    \/ ReconnectPassive
    \/ Unmount
    \/ EnvSetValue
    \/ EnvLazyInit

Spec == Init /\ [][Next]_vars

TypeOK ==
    /\ cfg \in Configs
    /\ epoch \in Epochs
    /\ cepoch \in 0..MaxEpoch
    /\ env \in 0..MaxEnv
    /\ \A j \in Srcs : src[j].val \in Values \cup {TriggerValue, ChainValue}
    /\ obs.on \in BOOLEAN

\* ------------------------------------------------- the Slice used alone
\* A Slice and three listeners, the first two of any kind; the component is
\* not mounted.
SliceInit ==
    /\ cfg = BaseCfg
    /\ pc = "unmounted"
    /\ props = [gs |-> 0, sk |-> 0]
    /\ epoch = 1
    /\ cepoch = 0
    /\ refs = [e \in Epochs |-> [current |-> NoSrc, dset |-> FALSE, dsrc |-> NoSrc, inits |-> 0]]
    /\ slices = [e \in Epochs |-> [version |-> 0, listeners |-> {}]]
    /\ src = [j \in Srcs |-> EmptySrc]
    /\ slot = [i \in Slots |-> EmptySlot]
    /\ atom = EmptyAtom
    /\ needs = FALSE
    /\ warned = {}
    /\ env = 0
    /\ obs = NoObs
    /\ out = NoOut
    /\ slc \in {NewSlice(b) : b \in {c \in [Listeners -> Behaviours] : c[3] = "noop"}}
    /\ host = LoadModule(TRUE)
    /\ cmp = NoCmp
    /\ fac = NoFac

ComponentIdle ==
    UNCHANGED <<cfg, pc, props, epoch, cepoch, refs, slices, src, slot, atom, needs, warned, env,
                obs, out, host, cmp, fac>>

\* The history of the latest update(), kept until the next call of any kind.
Forget(z) ==
    [z EXCEPT !.log = <<>>, !.start = {}, !.removed = {}, !.cut = FALSE,
              !.startVersion = z.version]

\* A caller calls slice.update().
SliceUpdate ==
    /\ slc.nupd < MaxUpd
    /\ slc' = Compact(Slice_update(
                [Forget(slc) EXCEPT !.start = Live(slc),
                                    !.last = [op |-> "update", l |-> 0, was |-> FALSE]]))
    /\ ComponentIdle

\* A caller calls slice.subscribe(listener).
SliceSubscribe ==
    /\ \E l \in Listeners :
         slc' = [Slice_subscribe(Forget(slc), l) EXCEPT
                    !.last = [op |-> "subscribe", l |-> l, was |-> FALSE]]
    /\ ComponentIdle

\* A caller calls the function slice.subscribe(listener) returned, once or
\* once more.
SliceUnsubscribe ==
    /\ \E l \in Listeners :
         /\ l \in Live(slc) \/ (slc.last.op = "unsubscribe" /\ slc.last.l = l)
         /\ slc' = [Compact(Slice_unsubscribe(Forget(slc), l)) EXCEPT
                       !.removed = {},
                       !.last = [op |-> "unsubscribe", l |-> l, was |-> l \in Live(slc)]]
    /\ ComponentIdle

SliceNext == SliceUpdate \/ SliceSubscribe \/ SliceUnsubscribe

SliceSpec == SliceInit /\ [][SliceNext]_vars

\* ------------------------------------------- the warning registry alone
\* A test calls warning() with any of the messages, in any order, and clears
\* the registry (module.warnings.clear(), as the tests' beforeEach does).
WarningInit ==
    /\ Init
    /\ cfg = BaseCfg

WarningFrame ==
    UNCHANGED <<cfg, pc, props, epoch, cepoch, refs, slices, src, slot, atom, needs, env,
                obs, slc, host, cmp, fac>>

WarnCall ==
    /\ out.calls < MaxCalls
    /\ \E m \in Messages :
         LET t == warning([St EXCEPT !.out.calls = @ + 1], m)
         IN  warned' = t.warned /\ out' = t.out
    /\ WarningFrame

WarnClear ==
    /\ out.clears < MaxClears
    /\ warned' = {}
    /\ out' = [out EXCEPT !.clears = @ + 1]
    /\ WarningFrame

WarningNext == WarnCall \/ WarnClear

WarningSpec == WarningInit /\ [][WarningNext]_vars

\* ------------------------------------------------------ the static render
\* The hooks a static render calls: the three server.ts files of the source
\* tree (ad-hoc general, ad-hoc atomic, contract general), and useSource of
\* the contract atomic family as its test calls it.
ServerConfigs ==
    {[BaseCfg EXCEPT !.family = f, !.fallback = b] :
        f \in Families, b \in {"match", "mismatch"}}
    \cup {[BaseCfg EXCEPT !.family = f, !.pure = TRUE, !.hasDestroy = FALSE,
                          !.hasUnsub = FALSE, !.fallback = b] :
             f \in Families \ {"conAtomic"}, b \in {"match", "mismatch"}}

\* The module is loaded with or without a `window`.
ServerInit ==
    /\ cfg \in ServerConfigs
    /\ pc = "unmounted"
    /\ props = [gs |-> 0, sk |-> 0]
    /\ epoch = 1
    /\ cepoch = 0
    /\ refs = [e \in Epochs |-> [current |-> NoSrc, dset |-> FALSE, dsrc |-> NoSrc, inits |-> 0]]
    /\ slices = [e \in Epochs |-> [version |-> 0, listeners |-> {}]]
    /\ src = [j \in Srcs |-> EmptySrc]
    /\ slot = [i \in Slots |-> EmptySlot]
    /\ atom = EmptyAtom
    /\ needs = FALSE
    /\ warned = {}
    /\ env = 0
    /\ obs = NoObs
    /\ out = NoOut
    /\ slc = NewSlice([l \in Listeners |-> "noop"])
    /\ host \in {LoadModule(w) : w \in BOOLEAN}
    /\ cmp = NoCmp
    /\ fac = NoFac

\* renderToString renders the App once more, with any getSnapshot offset: the
\* exported hook is the static one.
ServerRender ==
    /\ useSourceExport(host) = "server"
    /\ host.calls < MaxServerCalls
    /\ \E g \in {0, 1} :
         /\ props' = [props EXCEPT !.gs = g]
         /\ LET t == IF cfg.pure THEN serverUsePureSource(St, epoch, props')
                     ELSE serverUseSource(St, epoch, props')
            IN  /\ Put(t)
                /\ host' = [host EXCEPT !.ran = "server", !.calls = @ + 1,
                                        !.source = serverSource(t)]
    /\ UNCHANGED <<cfg, pc, epoch, cepoch, env, slc, cmp, fac>>

\* The App is rendered where the exported hook is the client one: the first
\* render of the component.
ClientRender ==
    /\ useSourceExport(host) = "client"
    /\ pc = "unmounted"
    /\ Put(Render(St, epoch, props, TRUE))
    /\ pc' = "rendered"
    /\ host' = [host EXCEPT !.ran = "client"]
    /\ UNCHANGED <<cfg, props, epoch, cepoch, env, slc, cmp, fac>>

\* The global `window` appears or goes away after the module was loaded (a
\* test environment installing or removing a DOM).
WindowChange ==
    /\ host' = [host EXCEPT !.window = ~@]
    /\ UNCHANGED <<cfg, pc, props, epoch, cepoch, refs, slices, src, slot, atom, needs,
                   warned, env, obs, out, slc, cmp, fac>>

ServerNext == ServerRender \/ ClientRender \/ WindowChange

ServerSpec == ServerInit /\ [][ServerNext]_vars

\* ------------------------------------------------- shallowEqual alone
\* shallowEqual is called once with any two arguments; an object that is
\* an argument has any own properties.
ShallowInit ==
    /\ cfg = BaseCfg
    /\ pc = "unmounted"
    /\ props = [gs |-> 0, sk |-> 0]
    /\ epoch = 1
    /\ cepoch = 0
    /\ refs = [e \in Epochs |-> [current |-> NoSrc, dset |-> FALSE, dsrc |-> NoSrc, inits |-> 0]]
    /\ slices = [e \in Epochs |-> [version |-> 0, listeners |-> {}]]
    /\ src = [j \in Srcs |-> EmptySrc]
    /\ slot = [i \in Slots |-> EmptySlot]
    /\ atom = EmptyAtom
    /\ needs = FALSE
    /\ warned = {}
    /\ env = 0
    /\ obs = NoObs
    /\ out = NoOut
    /\ slc = NewSlice([l \in Listeners |-> "noop"])
    /\ host = LoadModule(TRUE)
    /\ \E a \in Arguments, b \in Arguments :
         \E h \in [Objs -> Objects] :
            /\ \A o \in Objs \ {a, b} : h[o] = <<>>
            /\ cmp = [a |-> a, b |-> b, heap |-> h, done |-> FALSE, result |-> FALSE]
    /\ fac = NoFac

ShallowCall ==
    /\ ~cmp.done
    /\ cmp' = [cmp EXCEPT !.done = TRUE, !.result = shallowEqual(cmp.heap, cmp.a, cmp.b)]
    /\ UNCHANGED <<cfg, pc, props, epoch, cepoch, refs, slices, src, slot, atom, needs,
                   warned, env, obs, out, slc, host, fac>>

ShallowNext == ShallowCall

ShallowSpec == ShallowInit /\ [][ShallowNext]_vars

\* --------------------------------------- useSource and its dependencies
\* The general useSource of either family, rendered again and again with any
\* dependency list.
FactoryInit ==
    /\ Init
    /\ cfg \in {[BaseCfg EXCEPT !.family = f] : f \in {"subGeneral", "conGeneral"}}

FactoryRender ==
    /\ fac.renders < MaxRenders
    /\ \E deps \in DepLists : fac' = useSourceRender(fac, deps)
    /\ UNCHANGED <<cfg, pc, props, epoch, cepoch, refs, slices, src, slot, atom, needs,
                   warned, env, obs, out, slc, host, cmp>>

FactoryNext == FactoryRender

FactorySpec == FactoryInit /\ [][FactoryNext]_vars

\* ------------------------------------------------- calls outside the scope
\* A lazyInit somebody kept (an event handler, a timer, a child's cleanup) is
\* called when its scope is not realized: the lazyInit of the scope in
\* reach, of a scope whose dependency list was replaced, or of the unmounted
\* component.  It is the function of useFactory's useMemo: it tests the ref of
\* its own scope.
RetainedLazyInit ==
    /\ pc # "unmounted"
    /\ ~cfg.pure
    /\ env < MaxEnv
    /\ \E e \in 1..epoch :
         /\ refs[e].current = NoSrc
         /\ Put(lazyInit(getValues(St), e))
    /\ env' = env + 1
    /\ UNCHANGED <<cfg, pc, props, epoch, cepoch, slc, host, cmp, fac>>

\* The first render of the App that ends with `return getSource()` is thrown
\* away by the host (the tree suspended, or the render was interrupted): the
\* hooks' state of that render is dropped and the next attempt builds a new
\* ref and lazyInit; what the render did outside the hooks (init, the
\* warning) stays done.
DiscardedRender ==
    /\ pc = "unmounted"
    /\ cfg.family = "subGeneral" /\ cfg.readsInRender
    /\ env < MaxEnv /\ epoch < MaxEpoch
    /\ LET t == Render(St, epoch, props, TRUE)
       IN  Put([St EXCEPT !.refs = t.refs, !.src = t.src, !.warned = t.warned,
                          !.out = t.out])
    /\ epoch' = epoch + 1
    /\ env' = env + 1
    /\ UNCHANGED <<cfg, pc, props, cepoch, slc, host, cmp, fac>>

\* The side-effecting useSource whose init returns a source and a destroy.
ScopeInit == Init /\ ~cfg.pure /\ ~cfg.nullSrc /\ cfg.hasDestroy

\* Somebody who kept a source that was handed to destroy changes it: the
\* Source object still calls the listeners it has.
TornDownSetValue ==
    /\ pc # "unmounted"
    /\ env < MaxEnv
    /\ \E id \in Srcs, v \in Values :
         /\ src[id].status = "destroyed"
         /\ Put(setValue(getValues(St), id, v))
    /\ env' = env + 1
    /\ UNCHANGED <<cfg, pc, props, epoch, cepoch, slc, host, cmp, fac>>

ScopeNext == Next \/ RetainedLazyInit \/ DiscardedRender \/ TornDownSetValue

ScopeSpec == ScopeInit /\ [][ScopeNext]_vars

\* ------------------------------------------------------------------ claims
\* The component is mounted, no commit is in progress and no render is
\* scheduled.
Settled == Idle /\ ~needs

\* The source of the latest render's dependency list.
Cur == refs[epoch].current

\* The committed snapshot of useSnapshot call i is the one getSnapshot derives
\* from the source as it is now.
Reflects(i) == slot[i].committed = src[Cur].val + UsedOffset(i)

\* C1: contract families.  A change of the realized source that happened
\* while useSnapshot call i had no listener on the slice is not lost: once
\* the component has settled, the committed snapshot of call i is the one
\* derived from the source after the change.
C1_NoLostUpdate ==
    (Contract /\ Settled /\ Cur # NoSrc) =>
        \A i \in ActiveSlots : i \in src[Cur].chgPre => Reflects(i)

C1_Witness ==
    /\ Contract /\ Settled /\ Cur # NoSrc
    /\ src[Cur].chgPre = ActiveSlots /\ src[Cur].chgSub = {}
    /\ src[Cur].val # InitialValue(epoch)
    /\ \A i \in ActiveSlots : Reflects(i)

\* C2: every family.  A change of the source that reached the listener of
\* useSnapshot call i is reflected by the committed snapshot once the
\* component has settled, and a render scheduled by a change is committed
\* only if it changes a snapshot (a change is not delivered twice).
C2_Delivered ==
    /\ (Settled /\ Cur # NoSrc) =>
          \A i \in ActiveSlots : i \in src[Cur].chgSub => Reflects(i)
    /\ pc = "rerendered" =>
          \E i \in ActiveSlots : slot[i].rendered # slot[i].committed

C2_Witness ==
    /\ Settled /\ Cur # NoSrc
    /\ src[Cur].chgSub = ActiveSlots /\ src[Cur].chgPre = {}
    /\ src[Cur].val # InitialValue(epoch)
    /\ \A i \in ActiveSlots : Reflects(i)

\* C3: contract families.  Every source init created was handed to the
\* contract exactly once, and whenever ref.current is set the slice's update
\* is a listener of that source.
C3_ContractAttached ==
    Contract =>
        /\ \A e \in Epochs : refs[e].current # NoSrc =>
              <<"slice", e>> \in src[refs[e].current].ls
        /\ \A j \in Srcs : src[j].status # "none" => src[j].nc = 1

C3_Witness ==
    /\ Contract /\ ~cfg.pure /\ pc = "layout" /\ cepoch = 0
    /\ Cur # NoSrc /\ src[Cur].chgPre # {}
    /\ <<"slice", epoch>> \in src[Cur].ls

\* C4: lazy-once.  Between the scope becoming live and its teardown init is
\* invoked at most once, whatever source it returns.
C4_LazyOnce == \A e \in Epochs : refs[e].inits <= 1

\* C5: ad-hoc families.  destroy is never called on a source that still has
\* a subscription, and unsubscribe is never called after the destroy.
C5_UnsubscribeBeforeDestroy ==
    Adhoc => \A j \in Srcs : ~src[j].dws /\ ~src[j].uad

\* C5 (amended): in the ad-hoc general family teardown calls destroy first
\* and the caller's unsubscribe after it, in the same cleanup pass: a
\* destroyed source was destroyed while subscribed, was unsubscribed after
\* the destroy, and has no listener left.  In the ad-hoc atomic family with
\* an unmemoized subscribe the unsubscribe comes first.
C5_TeardownOrder ==
    /\ cfg.family = "subGeneral" =>
          \A j \in Srcs : src[j].status = "destroyed" =>
              src[j].dws /\ src[j].uad /\ src[j].ls = {}
    /\ (cfg.family = "subAtomic" /\ ~MemoizedSubscribe) =>
          \A j \in Srcs : ~src[j].dws /\ ~src[j].uad

C5_Witness ==
    /\ cfg.family = "subGeneral" /\ pc = "passive" /\ cepoch # 0
    /\ \E j \in Srcs : src[j].status = "destroyed" /\ src[j].dws /\ src[j].uad

\* C6: contract families.  On teardown the contract's unsubscribe (if any)
\* runs before destroy (if any), each at most once per source and on the
\* source it was created for; a missing unsubscribe or destroy is skipped.
C6_ContractTeardown ==
    Contract =>
        /\ \A j \in Srcs :
              /\ src[j].nd <= 1 /\ src[j].nu <= 1
              /\ ~src[j].uad
              /\ cfg.hasUnsub => ~src[j].dws
              /\ (cfg.hasUnsub /\ cfg.hasDestroy) => src[j].nu = src[j].nd
              /\ ~cfg.hasUnsub => src[j].nu = 0
              /\ ~cfg.hasDestroy => src[j].nd = 0
        /\ (pc = "dead" /\ ~cfg.pure) => \A e \in Epochs : refs[e].current = NoSrc

C6_Witness ==
    /\ Contract /\ cfg.hasUnsub /\ cfg.hasDestroy /\ pc = "dead"
    /\ \E j \in Srcs : src[j].nu = 1 /\ src[j].nd = 1 /\ src[j].ls = {}

\* C7: dependency change.  A source is never created while the source of
\* an older dependency list is still alive: destroy(old) precedes init(new).
C7_DestroyBeforeInit ==
    (~cfg.pure /\ cfg.hasDestroy) => \A j \in Srcs : ~src[j].liveAtInit

\* C8: atomic families.  A change of the source that happened while the
\* layout-effect subscription was not mounted is reflected by the committed
\* snapshot once the component has settled.
C8_PreSubscription ==
    (Atomic /\ Settled /\ Cur # NoSrc /\ 1 \in src[Cur].chgPre) => Reflects(1)

C8_Witness ==
    /\ cfg.family = "subAtomic" /\ Settled /\ Cur # NoSrc
    /\ 1 \in src[Cur].chgPre /\ src[Cur].chgSub = {}
    /\ src[Cur].val # InitialValue(epoch)
    /\ Reflects(1)

\* C9: side-effecting useSource, every family.  When the fallback snapshot
\* differs from the one derived from the realized source, then once the mount
\* has settled (first dependency list, source realized and not changed since)
\* the committed snapshot
\* is the one derived from the source, not the fallback, and the development
\* build has warned about the mismatch.
C9_MismatchCorrected ==
    (/\ ~cfg.pure /\ cfg.fallback = "mismatch"
     /\ Settled /\ epoch = 1 /\ Cur # NoSrc
     /\ src[Cur].chgPre = {} /\ src[Cur].chgSub = {}) =>
        /\ \A i \in ActiveSlots : Reflects(i)
        /\ cfg.dev => "mismatch" \in warned

Count(l) == Cardinality({k \in 1..Len(slc.log) : slc.log[k][1] = l})

\* The listeners the latest outermost update() invoked.
Invoked == {slc.log[k][1] : k \in 1..Len(slc.log)}

\* No listener that was registered when the latest update() began changes the
\* Set or calls update().
Quiet == \A l \in slc.start : slc.beh[l] = "noop"

\* C13: a Slice's version starts at 0, never decreases, grows by exactly one
\* with every update() call (by as many as there were calls, when listeners
\* call update() themselves), and is left alone by subscribe and unsubscribe.
C13_VersionMonotone ==
    /\ slc.version = 0
    /\ [][/\ slc'.version >= slc.version
          /\ slc'.version - slc.version = slc'.nupd - slc.nupd
          /\ slc'.last.op \in {"subscribe", "unsubscribe"} =>
                slc'.version = slc.version]_vars

C13_Witness ==
    /\ slc.last.op = "update" /\ slc.version = MaxUpd /\ slc.nupd = MaxUpd
    /\ slc.startVersion = 0 /\ Len(slc.log) > 1

\* C14: a listener that subscribe() was called for twice or more is invoked
\* exactly once by an update() call (whose listeners do nothing to the Slice).
C14_ListenerIdempotence ==
    (slc.last.op = "update" /\ Quiet) =>
        \A l \in Listeners : slc.nsub[l] = 2 => Count(l) = 1

C14_Witness ==
    /\ slc.last.op = "update" /\ Quiet
    /\ Cardinality(Live(slc)) >= 2
    /\ \E l \in Listeners : slc.nsub[l] = 2 /\ Count(l) = 1

\* C15: within one update() call (no listener calls update() itself) every
\* listener is invoked at most once, and the listeners invoked are those that
\* were registered when the call began, whatever the listeners do to the Set.
C15_StableDelivery ==
    (slc.last.op = "update" /\ \A l \in Listeners : slc.beh[l] # "update") =>
        /\ \A l \in Listeners : Count(l) <= 1
        /\ ~slc.cut => Invoked = slc.start

\* C16: update() calls made by listeners.  The versions the listener
\* invocations read never go down, and every listener that stayed registered
\* from the beginning to the end of the outermost call is invoked at least
\* once after the last increment (it reads the final version).
C16_ReentrantUpdate ==
    (slc.last.op = "update" /\ ~slc.cut) =>
        /\ \A k \in 1..(Len(slc.log) - 1) : slc.log[k][2] <= slc.log[k + 1][2]
        /\ \A k \in 1..Len(slc.log) : slc.log[k][2] > slc.startVersion
        /\ \A l \in slc.start \ slc.removed :
              \E k \in 1..Len(slc.log) : slc.log[k] = <<l, slc.version>>

C16_Witness ==
    /\ slc.last.op = "update" /\ ~slc.cut
    /\ slc.version >= slc.startVersion + 2
    /\ Cardinality(slc.start \ slc.removed) >= 2
    /\ \E k \in 1..Len(slc.log) : slc.log[k][2] < slc.version

C20_StableGetSnapshot ==
    [][(pc \notin {"unmounted", "dead"} /\ epoch' = epoch) =>
          UsedOffset(1)' = UsedOffset(1)]_vars

\* The useFactory scope whose effect cleanup runs in this step: the committed
\* one at the strict-mode disconnect and at unmount, the previous one in the
\* commit that follows a change of the source dependency list.
TornDown ==
    IF cfg.pure \/ cepoch = 0 \/ pc' = pc THEN {}
    ELSE IF pc' \in {"hidden", "dead"} THEN {cepoch}
    ELSE IF pc' = "passive" /\ cepoch # epoch THEN {cepoch}
    ELSE {}

\* What became of source j in this step, as far as destroy is concerned.
DestroyedNow(j) == src'[j].status = "destroyed" /\ src[j].status = "live" /\ src'[j].nd = 1
Untouched(j) == src'[j].status = src[j].status /\ src'[j].nd = src[j].nd

\* C19: the teardown of a useFactory scope destroys the source the ref holds
\* when init returned a destroy, and destroys nothing otherwise; no other
\* source is destroyed; the ref is left at null; and a ref that goes from
\* null to a source receives a source that did not exist before, never the
\* one destroyed.
C19_Teardown ==
    [][/\ \A e \in TornDown :
            /\ refs'[e].current = NoSrc
            /\ \A j \in Srcs :
                 IF j = refs[e].current /\ cfg.hasDestroy
                 THEN DestroyedNow(j) ELSE Untouched(j)
       /\ \A e \in Epochs :
            (refs[e].current = NoSrc /\ refs'[e].current # NoSrc) =>
                /\ src[refs'[e].current].status = "none"
                /\ src'[refs'[e].current].status = "live"]_vars

\* A scope that was torn down (its first source is destroyed) and whose ref
\* holds a second, live source.
C19_Witness ==
    /\ pc = "idle"
    /\ \E j \in Srcs :
         /\ src[j].status = "destroyed"
         /\ refs[src[j].e].current \notin {NoSrc, j}
         /\ src[refs[src[j].e].current].status = "live"

\* C18: the side-effecting useSource.  Once the effects of a commit have run
\* the scope's init has run (the ref holds the source it returned), whether
\* or not anybody called lazyInit(); and the caller's subscribe, whenever it
\* was called, was given a source that exists, never null (init returning a
\* source).
C18_EagerRealization ==
    ~cfg.pure =>
        /\ Idle =>
             /\ refs[cepoch].inits >= 1
             /\ ~cfg.nullSrc => /\ refs[cepoch].current # NoSrc
                                /\ src[refs[cepoch].current].status # "none"
        /\ (Adhoc /\ ~cfg.nullSrc) =>
             /\ \A i \in ActiveSlots :
                  (General /\ slot[i].sub # <<>>) =>
                      slot[i].subSrc # NoSrc /\ src[slot[i].subSrc].status # "none"
             /\ (Atomic /\ atom.lsub) =>
                  atom.subSrc # NoSrc /\ src[atom.subSrc].status # "none"
        /\ \A j \in Srcs : src[j].nc > 0 => src[j].status # "none"

\* The mount commit of a contract hook in the production build is over, no
\* consumer has called lazyInit(), and the source is there.
C18_Witness ==
    /\ ~cfg.pure /\ ~cfg.dev /\ Contract
    /\ pc = "mounted" /\ env = 0
    /\ refs[cepoch].current # NoSrc
    /\ src[refs[cepoch].current].nc = 1

\* What the test App yields for one committed snapshot v.
Yields(v) == <<<<"render", v>>, <<"effect", v>>>>

IsPrefix(a, b) == Len(a) <= Len(b) /\ a = SubSeq(b, 1, Len(a))

\* C11: general ad-hoc useSource, the test App mounted and at rest.  After a
\* dispatch that changes the snapshot the App renders once with the new
\* snapshot and then runs its effect once, and nothing else; after a dispatch
\* that leaves the snapshot equal it neither renders nor runs its effect.
C11_OneRenderPerChange ==
    (cfg.family = "subGeneral" /\ obs.on /\ obs.to # TriggerValue) =>
        IF obs.to = obs.from THEN obs.log = <<>>
        ELSE /\ IsPrefix(obs.log, Yields(obs.to))
             /\ Settled => obs.log = Yields(obs.to)

\* The new value was dispatched, rendered and committed, and the effect ran.
C11_Witness ==
    /\ cfg.family = "subGeneral" /\ obs.on /\ Settled
    /\ obs.from = 0 /\ obs.to = 1
    /\ obs.log = Yields(1)

\* C12: the test App at rest, in any family.  After a dispatch whose snapshot
\* is 2 the App renders 2 and runs its effect, which sets the source to 3;
\* then it renders 3 and runs its effect: 2 and 3 are each committed once, in
\* that order, and nothing else is rendered.
C12_EffectDispatch ==
    (obs.on /\ obs.to = TriggerValue /\ obs.from # TriggerValue) =>
        /\ IsPrefix(obs.log, Yields(TriggerValue) \o Yields(ChainValue))
        /\ Settled => obs.log = Yields(TriggerValue) \o Yields(ChainValue)

\* Both commits are over in an atomic hook.
C12_Witness ==
    /\ Atomic /\ obs.on /\ Settled
    /\ obs.to = TriggerValue
    /\ obs.log = Yields(TriggerValue) \o Yields(ChainValue)
    /\ slot[1].committed = ChainValue /\ src[Cur].val = ChainValue

\* No init, destroy, subscribe or unsubscribe is called in this step: the
\* refs, the sources' listeners and destroyed state, and the subscriptions of
\* the useSnapshot calls are what they were.
NoLifecycleCall ==
    /\ refs' = refs
    /\ \A j \in Srcs : /\ src'[j].status = src[j].status
                       /\ src'[j].ls = src[j].ls
                       /\ src'[j].nd = src[j].nd
    /\ \A i \in Slots : slot'[i].sub = slot[i].sub /\ slot'[i].subSrc = slot[i].subSrc
    /\ atom'.lsub = atom.lsub /\ atom'.subSrc = atom.subSrc

\* The parent renders with a changed getSnapshot dependency list.
GsChange == Idle /\ pc' = "rendered" /\ props'.gs # props.gs

\* A step of a commit (not the mount's) whose render changed neither the
\* source dependency list nor a subscribe dependency list.
PlainCommitStep ==
    /\ pc \in {"rendered", "rerendered", "layout", "passivePending", "passive"}
    /\ pc' # pc
    /\ cepoch = epoch
    /\ \A i \in Slots : slot[i].sub = SubKey(i, epoch, props)

\* C21: general ad-hoc useSource, the useSnapshot call that lists its
\* getSnapshot dependencies (call 2).  The render in which that list changed
\* reports the snapshot the new getSnapshot derives from the current source,
\* and neither that render nor the commit that follows calls init, destroy,
\* subscribe or unsubscribe.
C21_GetSnapshotDeps ==
    [][cfg.family = "subGeneral" =>
          /\ GsChange =>
               /\ slot'[2].rendered = getSnapshot(St, Cur, Offset(props'), epoch)
               /\ NoLifecycleCall
          /\ PlainCommitStep => NoLifecycleCall]_vars

\* The changed list was rendered and committed on the source of the mount's
\* second lifecycle; nothing else happened since.
C21_Witness ==
    /\ cfg.family = "subGeneral" /\ ~cfg.pure /\ ~cfg.nullSrc
    /\ pc = "idle" /\ env = 1 /\ props.gs = 1
    /\ slot[2].committed = src[Cur].val + Offset(props)
    /\ slot[2].sub # <<>> /\ slot[2].subSrc = Cur
    /\ src[Cur].ls = {<<"slot", 1>>, <<"slot", 2>>}
    /\ refs[epoch].inits = 1

\* The commit in progress is that of a render that built a new getter for
\* useSnapshot call 2 (its getSnapshot or its ref changed).
NewGetter == pc \in {"rendered", "layout", "passivePending", "passive"}
             /\ slot[2].wi # slot[2].ii

\* C22 as stated: general ad-hoc useSource; when the getSnapshot dependency
\* list changes the snapshot is recomputed and the subscription is
\* re-established: the cleanup phase of the commit unsubscribes the call and
\* the create phase subscribes it again.
C22_Resubscribed ==
    [][cfg.family = "subGeneral" =>
          /\ GsChange => slot'[2].rendered = getSnapshot(St, Cur, Offset(props'), epoch)
          /\ (NewGetter /\ pc = "passivePending" /\ pc' = "passive") =>
               slot'[2].sub = <<>>
          /\ (NewGetter /\ pc = "passive" /\ pc' # pc) =>
               slot[2].sub = <<>> /\ slot'[2].sub # <<>>]_vars

\* C22, amended: the render in which the getSnapshot dependency list changed
\* recomputes the snapshot of the call that gave the list with the new
\* getSnapshot, and derives the snapshot of the call that gave none with the
\* getSnapshot it had; the commit of that render leaves every subscription
\* as it is.
C22_RecomputedOnly ==
    [][cfg.family = "subGeneral" =>
          /\ GsChange =>
               /\ slot'[2].rendered = getSnapshot(St, Cur, Offset(props'), epoch)
               /\ slot'[1].rendered = getSnapshot(St, Cur, UsedOffset(1), epoch)
          /\ (NewGetter /\ pc' # pc /\ cepoch = epoch
                /\ slot[2].sub = SubKey(2, epoch, props)) =>
               /\ \A i \in Slots : slot'[i].sub = slot[i].sub
                                   /\ slot'[i].subSrc = slot[i].subSrc
               /\ \A j \in Srcs : src'[j].ls = src[j].ls]_vars

\* In the commit of the changed list: the two calls differ by the new offset
\* and call 2 is still subscribed as before.
C22_Witness ==
    /\ cfg.family = "subGeneral" /\ ~cfg.nullSrc
    /\ pc = "passive" /\ NewGetter /\ cepoch = epoch /\ props.gs = 1
    /\ slot[2].sub = SubKey(2, epoch, props) /\ <<"slot", 2>> \in src[Cur].ls
    /\ slot[1].committed = src[Cur].val
    /\ slot[2].committed = src[Cur].val + Offset(props)

\* The sources and refs are untouched by this step as far as init and
\* destroy are concerned.
NoInitNoDestroy ==
    /\ refs' = refs
    /\ \A j \in Srcs : src'[j].status = src[j].status /\ src'[j].nd = src[j].nd

\* A step of the commit of a render that kept the source dependency list.
SameSourceCommitStep ==
    /\ pc \in {"rendered", "rerendered", "layout", "passivePending", "passive"}
    /\ pc' # pc
    /\ cepoch = epoch
    /\ ~cfg.nullSrc

\* C23: general ad-hoc useSource, init returning a source.  In the commit of
\* a render that changed the subscribe dependency list of a call (call 2),
\* the cleanup phase calls the unsubscribe of that call and the create phase
\* calls subscribe again with the same source, and init and destroy are not
\* called; a call without subscribe dependencies (call 1), or with the list
\* unchanged, is neither unsubscribed nor subscribed by a re-render.
C23_SubscribeDeps ==
    [][(cfg.family = "subGeneral" /\ SameSourceCommitStep) =>
          /\ NoInitNoDestroy
          /\ slot'[1].sub = slot[1].sub /\ slot'[1].subSrc = slot[1].subSrc
          /\ (<<"slot", 1>> \in src'[Cur].ls) = (<<"slot", 1>> \in src[Cur].ls)
          /\ IF slot[2].sub = SubKey(2, epoch, props)
             THEN /\ slot'[2].sub = slot[2].sub /\ slot'[2].subSrc = slot[2].subSrc
                  /\ (<<"slot", 2>> \in src'[Cur].ls) = (<<"slot", 2>> \in src[Cur].ls)
             ELSE /\ (pc = "passivePending" /\ slot[2].sub # <<>>) =>
                       /\ slot[2].subSrc = Cur
                       /\ slot'[2].sub = <<>>
                       /\ <<"slot", 2>> \notin src'[Cur].ls
                  /\ pc = "passive" =>
                       /\ slot[2].sub = <<>>
                       /\ slot'[2].sub = SubKey(2, epoch, props)
                       /\ slot'[2].subSrc = Cur
                       /\ <<"slot", 2>> \in src'[Cur].ls]_vars

\* The subscribe dependency list of call 2 changed once and the commit is
\* over: call 2 is subscribed under the new list to the source it had.
C23_Witness ==
    /\ cfg.family = "subGeneral" /\ ~cfg.pure /\ ~cfg.nullSrc
    /\ pc = "idle" /\ env = 1 /\ props.sk = 1
    /\ slot[2].sub = <<epoch, 1>> /\ slot[2].subSrc = Cur
    /\ slot[1].sub = <<epoch, 0>>
    /\ refs[epoch].inits = 1 /\ src[Cur].nd = 0

\* C24: the side-effecting useSource whose consumer calls lazyInit() in its
\* render.  The 'read during render' warning is recorded exactly in the
\* development build; once the component has rendered, init has run and the
\* ref holds what it returned; and in every state a lazyInit() called while
\* rendering would leave the refs and the sources as a lazyInit() called
\* outside render would.
C24_LazyInitInRender ==
    /\ ("render" \in warned) =
          (cfg.readsInRender /\ ~cfg.pure /\ cfg.dev /\ pc # "unmounted")
    /\ (cfg.readsInRender /\ ~cfg.pure) =>
          /\ pc \in {"rendered", "rerendered"} =>
                /\ refs[epoch].inits >= 1
                /\ ~cfg.nullSrc => /\ Cur # NoSrc
                                   /\ src[Cur].status = "live"
          /\ \A e \in Epochs :
                /\ lazyInitRendering(St, e).refs = lazyInit(St, e).refs
                /\ lazyInitRendering(St, e).src = lazyInit(St, e).src

\* The mount's render is over, nothing was committed, and the source is
\* there with the warning recorded.
C24_Witness ==
    /\ cfg.readsInRender /\ cfg.dev /\ ~cfg.nullSrc
    /\ pc = "rendered" /\ cepoch = 0
    /\ Cur # NoSrc /\ src[Cur].status = "live"
    /\ "render" \in warned

\* C25: any sequence of warning(message) calls and registry clears.  A call
\* writes its message exactly when the registry does not hold it, and then
\* the registry holds it; so a message is written at most once more than the
\* registry was cleared, and a message the registry holds was written.  The
\* registry loses a message only in an explicit clear.
C25_WarnOnce ==
    [][/\ \A m \in Messages :
            /\ out'.count[m] \in {out.count[m], out.count[m] + 1}
            /\ (out'.count[m] = out.count[m] + 1) =
                  (out'.calls = out.calls + 1 /\ m \notin warned /\ m \in warned')
            /\ out'.count[m] <= out'.clears + 1
            /\ m \in warned' => out'.count[m] >= 1
       /\ (warned \ warned' # {}) => out'.clears = out.clears + 1
       /\ out'.calls = out.calls + 1 => Cardinality(warned' \ warned) <= 1]_vars

\* A message was written, called again without being written, the registry
\* was cleared, and the message was written again.
C25_Witness ==
    /\ out.count["render"] = 2 /\ out.clears = 1 /\ out.calls = 3
    /\ "render" \in warned

\* The sources init has created so far.
Created == {j \in Srcs : src[j].status # "none"}

\* No subscribe and no contract was called: no source has a listener or a
\* signed contract, no slice has one, no useSnapshot call or layout effect
\* holds a subscription.
NothingSubscribed ==
    /\ \A j \in Srcs : src[j].ls = {} /\ src[j].nc = 0
    /\ \A e \in Epochs : slices[e].listeners = {}
    /\ \A i \in Slots : slot[i].sub = <<>>
    /\ ~atom.lsub

\* C26: static (server) variants.  After a static hook call: the
\* side-effecting useSource has called no init, subscribe or contract, every
\* snapshot is getSnapshot(null, null) (the fallback plus the offset) and no
\* source is handed back; the pure usePureSource has called init once per
\* call, neither subscribe nor contract, and every snapshot is derived from
\* the source of that call.  Whichever implementation runs is the one the
\* module picked when it was loaded, whatever `window` is at the call.
C26_ServerVariants ==
    /\ host.ran # "none" => host.ran = (IF host.isServer THEN "server" ELSE "client")
    /\ (host.ran = "server" /\ ~cfg.pure) =>
          /\ Created = {}
          /\ \A e \in Epochs : refs[e].inits = 0 /\ refs[e].current = NoSrc
          /\ NothingSubscribed
          /\ host.source = NoSrc
          /\ \A i \in ActiveSlots : slot[i].rendered = Fallback(epoch) + Offset(props)
    /\ (host.ran = "server" /\ cfg.pure) =>
          /\ Cardinality(Created) = host.calls
          /\ NothingSubscribed
          /\ host.source \in Created /\ host.source = host.calls
          /\ \A i \in ActiveSlots :
                slot[i].rendered = src[host.source].val + Offset(props)

C26_Witness ==
    /\ host.ran = "server" /\ host.window
    /\ host.calls = 2
    /\ cfg.pure /\ cfg.family = "conGeneral" /\ cfg.fallback = "mismatch"
    /\ props.gs = 1
    /\ Cardinality(Created) = 2

\* The arguments are both objects (typeof 'object', not null).
BothObjects == cmp.a \in Objs /\ cmp.b \in Objs

EnumerableKeys(o) == {o[i].key : i \in {j \in DOMAIN o : o[j].enumerable}}
OwnKeys(o) == {o[i].key : i \in DOMAIN o}
ValueOf(o, k) == o[CHOOSE i \in DOMAIN o : o[i].key = k].value

\* C27: shallowEqual(a, b) is true exactly when a and b are the same value
\* (Object.is: NaN is NaN, +0 is not -0, an object only itself), or both
\* are non-null objects with as many enumerable own keys, every enumerable
\* key of a an own key of b, and the two values of each such key the same
\* value, one level deep.  So shallowEqual(x, x) is true for every x, an
\* object never equals null, and objects of different key counts differ.
C27_ShallowEqual ==
    cmp.done =>
        /\ cmp.result <=>
             \/ cmp.a = cmp.b
             \/ /\ BothObjects
                /\ Cardinality(EnumerableKeys(cmp.heap[cmp.a]))
                     = Cardinality(EnumerableKeys(cmp.heap[cmp.b]))
                /\ \A k \in EnumerableKeys(cmp.heap[cmp.a]) :
                      /\ k \in OwnKeys(cmp.heap[cmp.b])
                      /\ ValueOf(cmp.heap[cmp.a], k) = ValueOf(cmp.heap[cmp.b], k)
        /\ cmp.a = cmp.b => cmp.result
        /\ (cmp.a \in Objs /\ cmp.b = "null") => ~cmp.result
        /\ (BothObjects /\ Len(cmp.heap[cmp.a]) = 1 /\ Len(cmp.heap[cmp.b]) = 2
              /\ \A i \in 1..2 : cmp.heap[cmp.b][i].enumerable) => ~cmp.result

\* Two distinct objects with the same two properties, one of them NaN, are
\* shallowly equal.
C27_Witness ==
    /\ cmp.done /\ cmp.result
    /\ cmp.a = "o1" /\ cmp.b = "o2"
    /\ cmp.heap["o1"] = cmp.heap["o2"]
    /\ Len(cmp.heap["o1"]) = 2
    /\ \A i \in 1..2 : cmp.heap["o1"][i].enumerable
    /\ cmp.heap["o1"][1].value = "NaN" /\ cmp.heap["o1"][2].value = "r1"

\* The memoized getters of useSnapshot call i that exist (ref objects of
\* useMemo): the one the latest render works with and the one the store
\* instance holds.
Memos(i) == {k \in 1..2 : slot[i].m[k].e # 0}

\* Memo k of call i is the same ref object after the step: no render of the
\* step created a ref in its place (a mount, or a render whose getSnapshot
\* or slice is not the one of the ref the previous render worked with).
SameMemo(i, k) ==
    ~ /\ slot'[i].wi = k
      /\ \/ pc = "unmounted"
         \/ slot[i].m[slot[i].wi].e # slot'[i].m[k].e
         \/ slot[i].m[slot[i].wi].gs # slot'[i].m[k].gs

\* A render of the component has run in the step.
RenderStep == pc' \in {"rendered", "rerendered"} /\ pc \notin {"rendered", "rerendered"}

C28_State ==
    cfg.family = "conGeneral" =>
        /\ \A i \in Slots : \A k \in Memos(i) :
              slot[i].m[k].lrv <= slices[slot[i].m[k].e].version
        /\ \A e \in Epochs :
              slices[e].listeners = {i \in Slots : slot[i].sub # <<>> /\ slot[i].sub[1] = e}

C28_Step ==
    cfg.family = "conGeneral" =>
        /\ \A i \in Slots : \A k \in Memos(i) :
              LET m == slot[i].m[k]
                  n == slot'[i].m[k]
              IN  SameMemo(i, k) =>
                    /\ (m.lrv = slices[m.e].version
                          /\ slices'[m.e].version = slices[m.e].version)
                       => (n.snapshot = m.snapshot /\ n.lrv = m.lrv)
                    /\ (n.lrv # m.lrv \/ n.snapshot # m.snapshot)
                       => n.lrv = slices'[m.e].version
        /\ RenderStep =>
              \A i \in Slots :
                 LET n == slot'[i].m[slot'[i].wi]
                 IN  n.lrv = slices'[n.e].version

\* C28: contract general family.  The getter of a useSnapshot call derives
\* the snapshot only when its lastReadVersion differs from the version of
\* its slice, and then records that version: lastReadVersion never exceeds
\* the version, equals it when a render has read the getter, and while the
\* version stands still the getter's snapshot and lastReadVersion stay as
\* they are, whatever is called.  The only subscription state is the
\* listener on the slice: a call is among the slice's listeners exactly
\* while the host primitive holds its subscription.
C28_VersionGate == []C28_State /\ [][C28_Step]_vars

\* After two updates, a parent re-render has read both getters again: they
\* are at the slice's version and returned the committed snapshots.
C28_Witness ==
    /\ cfg.family = "conGeneral"
    /\ pc = "rendered" /\ cepoch = epoch
    /\ slices[epoch].version = 2
    /\ \A i \in Slots :
          /\ slot[i].m[slot[i].wi].lrv = 2
          /\ slot[i].rendered = slot[i].committed
          /\ slot[i].sub # <<>>

\* A change notification reaches useSnapshot call i in the step: a source
\* that call i listens to is given a value.
Notified(i) ==
    \E j \in Srcs : src'[j].val # src[j].val /\ <<"slot", i>> \in src[j].ls

\* What getSnapshot derives after the step for the ref n.
DerivedNow(n) ==
    (IF refs'[n.e].current = NoSrc THEN Fallback(n.e) ELSE src'[refs'[n.e].current].val)
        + n.gs

\* C29 as stated: ad-hoc general family.  The getter re-derives only after
\* a change notification: in a step that notifies call i of no change, the
\* snapshot its getter stores stays as it is.
C29_GatedGetter ==
    [][cfg.family = "subGeneral" =>
          \A i \in Slots : \A k \in Memos(i) :
             (SameMemo(i, k) /\ ~Notified(i))
                => slot'[i].m[k].snapshot = slot[i].m[k].snapshot]_vars

\* C29, amended: ad-hoc general family.  The getter is memoized on
\* getSnapshot and derives at every call, handing getSnapshot the snapshot
\* it stored: what a render reads is derived from the source as it is in
\* that render, recorded change or not (a render that itself realizes the
\* source after the read excepted); the stored snapshot changes only when
\* what getSnapshot derives has changed.
C29_DerivesEveryCall ==
    [][cfg.family = "subGeneral" =>
          /\ (RenderStep /\ ~(cfg.readsInRender /\ refs[epoch'].current = NoSrc)) =>
                \A i \in Slots :
                   slot'[i].m[slot'[i].wi].snapshot = DerivedNow(slot'[i].m[slot'[i].wi])
          /\ \A i \in Slots : \A k \in Memos(i) :
                (SameMemo(i, k) /\ slot'[i].m[k].snapshot # slot[i].m[k].snapshot)
                   => slot'[i].m[k].snapshot = DerivedNow(slot'[i].m[k])]_vars

\* A render shows the value of a source that was realized after the mount
\* and never changed: no change was ever notified, and both getters derived
\* a snapshot other than the committed one.
C29_Witness ==
    /\ cfg.family = "subGeneral" /\ cfg.fallback = "mismatch"
    /\ pc = "rerendered"
    /\ Cur # NoSrc /\ src[Cur].chgSub = {} /\ src[Cur].chgPre = {}
    /\ \A i \in Slots :
          /\ slot[i].rendered = src[Cur].val + UsedOffset(i)
          /\ slot[i].rendered # slot[i].committed

\* The step is source.setValue(v) on a live source whose change reaches the
\* listener of the atomic useSnapshot: the slice's listener through the
\* signed contract, or the caller's subscribe.
NotifyingSetValue ==
    \E id \in Srcs, v \in Dispatched :
        /\ pc \notin {"unmounted", "dead"}
        /\ src[id].status = "live"
        /\ atom.lsub
        /\ IF cfg.family = "conAtomic"
           THEN src[id].ls # {} /\ 1 \in slices[src[id].e].listeners
           ELSE <<"slot", 1>> \in src[id].ls
        /\ Put(setValue(Watch(St, id, v), id, v))
        /\ env' = env + 1
        /\ pc' = pc

\* What the getSnapshot the atomic hook applied derives after the step.
DerivedAtomic ==
    (IF refs'[epoch'].current = NoSrc THEN Fallback(epoch')
     ELSE src'[refs'[epoch'].current].val) + atom'.used

DepsDiffer(a, b) ==
    \E i \in 1..(IF Len(a) < Len(b) THEN Len(a) ELSE Len(b)) : a[i] # b[i]

Production(s) == [s EXCEPT !.dev = FALSE]

\* Two results agree on everything but the warnings: the refs with their
\* init counts, the slices, the sources with their destroy, contract and
\* unsubscribe counts and listeners, the snapshots and subscriptions of the
\* useSnapshot calls, the scheduled render and what the App yielded.
SameRun(t, u) ==
    /\ t.refs = u.refs /\ t.slices = u.slices /\ t.src = u.src
    /\ t.slot = u.slot /\ t.atom = u.atom /\ t.needs = u.needs /\ t.obs = u.obs

\* The production result u of a step from state s wrote no warning.
Silent(s, u) == u.warned = s.warned /\ u.out = s.out

\* The development result t and the production result u of one step from s.
Twin(s, t, u) == SameRun(t, u) /\ Silent(s, u)

\* The props a parent's render can pass next.
NextProps == {[gs |-> g, sk |-> k] : g \in {props.gs, 1 - props.gs}, k \in {props.sk, 1 - props.sk}}

\* Every step the component can take from the state gives, with __DEV__
\* false, the same result without writing a warning.
StepsAgree ==
    /\ pc = "unmounted" =>
         Twin(St, Render(St, epoch, props, TRUE), Render(Production(St), epoch, props, TRUE))
    /\ Idle =>
         /\ \A p \in NextProps, e \in {epoch, epoch + 1} \cap Epochs :
              (e # epoch => DepsAllowed) =>
              Twin(St, Render(getValues(St), e, p, FALSE),
                       Render(Production(getValues(St)), e, p, FALSE))
         /\ Twin(St, Render(St, epoch, props, FALSE), Render(Production(St), epoch, props, FALSE))
         /\ Twin(St, PassiveCleanups(IF atom.lsub THEN layoutCleanup(getValues(St))
                                     ELSE getValues(St), cepoch, epoch, props, TRUE),
                     PassiveCleanups(Production(IF atom.lsub THEN layoutCleanup(getValues(St))
                                     ELSE getValues(St)), cepoch, epoch, props, TRUE))
    /\ pc \in {"rendered", "rerendered"} =>
         Twin(St, Mutation(St, props), Mutation(Production(St), props))
    /\ pc \in {"layout", "hidden"} =>
         Twin(St, Layout(St, epoch, props), Layout(Production(St), epoch, props))
    /\ pc = "passivePending" =>
         Twin(St, PassiveCleanups(St, cepoch, epoch, props, FALSE),
                  PassiveCleanups(Production(St), cepoch, epoch, props, FALSE))
    /\ pc = "passive" =>
         Twin(St, PassiveCreates(St, cepoch, epoch, props, cepoch = 0),
                  PassiveCreates(Production(St), cepoch, epoch, props, cepoch = 0))
    /\ pc = "hiddenPassive" =>
         Twin(St, PassiveCreates(St, cepoch, epoch, props, TRUE),
                  PassiveCreates(Production(St), cepoch, epoch, props, TRUE))
    /\ (pc \notin {"unmounted", "dead"} /\ ReachableEpoch # 0) =>
         Twin(St, lazyInit(getValues(St), ReachableEpoch),
                  lazyInit(Production(getValues(St)), ReachableEpoch))

\* C32: with __DEV__ false nothing is ever warned, and every step of the
\* component makes the same init, contract, subscribe, unsubscribe and destroy
\* calls and commits the same snapshots as the step made with __DEV__ true.
C32_DevProdEquivalence ==
    /\ ~cfg.dev => warned = {} /\ out = NoOut
    /\ StepsAgree

\* C33: the side-effecting useSource whose init returns a destroy, with
\* lazyInit() called at any time by anybody who kept it.  No source is passed
\* to destroy twice, destroy is given only sources init created (never null),
\* and once the component is unmounted no source init created is alive.
C33_InitDestroyPairing ==
    /\ \A j \in Srcs :
         /\ src[j].nd <= 1
         /\ src[j].nd > 0 => src[j].status = "destroyed"
         /\ src[j].status = "destroyed" => src[j].nd = 1
    /\ pc = "dead" => \A j \in Srcs : src[j].status # "live"

\* The sources init created that were not destroyed yet.
LiveSources == {j \in Srcs : src[j].status = "live"}

\* C34: the side-effecting useSource whose init returns a destroy.  At every
\* moment at most one source that init created is alive.
C34_OneLiveSource ==
    (~cfg.pure /\ cfg.hasDestroy) => Cardinality(LiveSources) <= 1

\* The scope of the latest dependency list was torn down and realized again:
\* its ref holds a second source of the same list.
Recreated ==
    /\ ~cfg.pure /\ Cur # NoSrc
    /\ \E j \in Srcs : j # Cur /\ src[j].status # "none" /\ src[j].e = epoch

\* C35: a scope torn down and realized again without a dependency change.
\* init created a new source, and once the component has settled every
\* committed snapshot is the one derived from the new source as it is now,
\* whatever happened to the source before it.
C35_Recreated ==
    (Settled /\ Recreated /\ cfg.fallback = "match") =>
        /\ src[Cur].status = "live"
        /\ \A i \in ActiveSlots : Reflects(i)

\* C36: the side-effecting useSource, lazyInit() being called at any time by
\* anybody who kept it, of whatever dependency list.  The ref of a dependency
\* list only holds a source that the init of that list created, and a getter
\* built for a dependency list has derived its snapshot from null or from a
\* source of that list.
C36_EpochIsolation ==
    /\ \A e \in Epochs : refs[e].current # NoSrc => src[refs[e].current].e = e
    /\ General => \A i \in Slots, k \in 1..2 :
           slot[i].m[k].from # NoSrc => src[slot[i].m[k].from].e = slot[i].m[k].e

\* After a dependency change somebody called the lazyInit of the first list
\* again: its ref holds a second source of that list, the ref of the second
\* list holds its own source, and the snapshots are derived from that one.
C36_Witness ==
    /\ General /\ Settled /\ epoch = 2
    /\ \E j \in Srcs : /\ src[j].e = 1 /\ src[j].status = "destroyed"
                       /\ refs[1].current \notin {NoSrc, j}
                       /\ src[refs[1].current].status = "live"
    /\ refs[2].current # NoSrc /\ src[refs[2].current].e = 2
    /\ \A i \in Slots : slot[i].rfrom = refs[2].current

\* A source of a scope that was torn down by a dependency change or by the
\* unmount (a contract that returns no unsubscribe leaves its listener on the
\* source; such a source counts once the effects of a later dependency list
\* are mounted or the component is unmounted).
OldSource(j) ==
    /\ src[j].status = "destroyed"
    /\ cfg.hasUnsub \/ src[j].e \notin {epoch, cepoch} \/ pc = "dead"

\* The step changes the value of source j.
ChangedNow(j) == src'[j].val # src[j].val

\* Nothing of the component is derived or scheduled in the step, and the
\* Slice of every other dependency list than that of source j is left alone.
ComponentUntouched(j) ==
    /\ slot' = slot /\ atom' = atom /\ needs' = needs
    /\ \A e \in Epochs : e # src[j].e => slices'[e] = slices[e]

\* C37: a change of a source whose scope was torn down derives no snapshot and
\* schedules no render, and leaves the slice of the current dependency list
\* alone; a render with a new dependency list starts from a Slice of version
\* 0; and after the unmount no Slice has a listener.
C37_NoLateNotification ==
    /\ [][/\ \A j \in Srcs : (OldSource(j) /\ ChangedNow(j)) => ComponentUntouched(j)
          /\ (cfg.family = "conGeneral" /\ epoch' # epoch) =>
                 slices'[epoch'].version = 0]_vars
    /\ [](pc = "dead" => \A e \in Epochs : slices[e].listeners = {})

\* The sources on which the listener of call site i is registered.
Subscribed(i) == {j \in Srcs : <<"slot", i>> \in src[j].ls}

\* The source of the subscription whose unsubscribe call site i holds.
Held(i) ==
    IF cfg.family = "subAtomic" THEN (IF atom.lsub THEN atom.subSrc ELSE NoSrc)
    ELSE IF slot[i].sub # <<>> THEN slot[i].subSrc ELSE NoSrc

\* C38: ad-hoc families.  The listener of a call site is registered on no
\* source but the one of the subscription whose unsubscribe the call site
\* holds: a subscribe call is made only when the unsubscribe of the call
\* before it has run, at most one subscription per call site is active, and
\* after the unmount none is.
C38_SubscriptionPairing ==
    Adhoc =>
        /\ \A i \in ActiveSlots : Subscribed(i) = {Held(i)} \ {NoSrc}
        /\ \A i \in Slots \ ActiveSlots : Subscribed(i) = {}
        /\ pc = "dead" => \A i \in Slots : Subscribed(i) = {}

\* The atomic hook without a subscribe dependency list, after a dependency
\* change and further renders: the listener was taken off the destroyed
\* source of the first list and is registered on the current source only.
C38_Witness ==
    /\ cfg.family = "subAtomic" /\ ~MemoizedSubscribe
    /\ Settled /\ epoch = 2 /\ env = MaxEnv
    /\ Cur # NoSrc /\ src[Cur].e = 2 /\ Subscribed(1) = {Cur}
    /\ \E j \in Srcs : src[j].e = 1 /\ src[j].status = "destroyed" /\ src[j].ls = {}
====
